---- MODULE Spec2Model ----
(***************************************************************************)
(* CONSAR data monitor (src/consar_monitor.py): the poll / approval        *)
(* workflow over the record store, the monitor state file and the pending  *)
(* approval directories.  Every command-line invocation is one process:    *)
(* it loads the monitor state file, runs one handler and exits.            *)
(*                                                                         *)
(* The batch tools over the record file follow the monitor: the            *)
(* consistency repair pass (src/fix_database_consistency.py), the table    *)
(* generators (src/generate_aum_table.py, src/generate_aum_table_mxn.py,   *)
(* src/scripts/analysis/generate_professional_tables.py) and the growth    *)
(* analysis (src/growth_analysis.py).  Each has a specification of its     *)
(* own, in which the monitor is not running.                               *)
(***************************************************************************)
EXTENDS Integers, Sequences, FiniteSets, TLC

\* ------------------------------------------------------------------ bounds
MaxUnits == 2     \* approval ids that can be handed out
MaxDb == 5        \* records the store can hold

\* ------------------------------------------------------------ JSON values
Missing == "<missing>"   \* the key is not in the dict
None == "None"           \* Python None / JSON null

\* dict.get(key): None when the key is missing
Get(record, field) == IF record[field] = Missing THEN None ELSE record[field]

\* dict.get(key, default)
GetDefault(record, field, default) ==
    IF record[field] = Missing THEN default ELSE record[field]

Rec(concept, section, month) ==
    [Afore |-> "XXI", Siefore |-> "sb1", Concept |-> concept,
     Concept_Section |-> section, PeriodYear |-> "2025", PeriodMonth |-> month]

\* Records of the store and of the scraped output.  Stored and Alias have
\* one key through the Concept / Concept_Section fallback; the others are
\* records of a later period.
Stored == Rec("Total de Activo", Missing, "06")
Alias == Rec(Missing, "Total de Activo", "06")
NewA == Rec("Total de Activo", Missing, "07")
NewB == Rec(Missing, "Inversion en Fondos Mutuos", "07")

NoFile == [exists |-> FALSE, recs |-> << >>]

\* What the converter can leave at the processed-data path, read by
\* extract_new_records right after the run: no file, or the cumulative
\* output, which holds an already stored key between two new records.
Outputs == { NoFile, [exists |-> TRUE, recs |-> << NewB, Alias, NewA >>] }

\* KeyOf without the Concept_Section fallback
KeyOfConceptOnly(record) ==
    << Get(record, "Afore"), Get(record, "Siefore"), Get(record, "Concept"),
       Get(record, "PeriodYear"), Get(record, "PeriodMonth") >>

\* the key both loops of extract_new_records build
KeyOf(record) ==
    << Get(record, "Afore"), Get(record, "Siefore"),
       GetDefault(record, "Concept", Get(record, "Concept_Section")),
       Get(record, "PeriodYear"), Get(record, "PeriodMonth") >>

NoDuplicateKeys(recs) ==
    \A i, j \in 1..Len(recs) : KeyOf(recs[i]) = KeyOf(recs[j]) => i = j

\* ---------------------------------------------------------------- periods
\* The period labels of the summary page, in ascending string order; a
\* period is its index in this sequence, so sorted() is the numeric order.
PeriodNames == << "Jul 25", "Jun 25" >>
Periods == 1..Len(PeriodNames)

\* What the summary page can show: June alone, or June and July.
Pages == { { 2 }, { 1, 2 } }

RECURSIVE SortedSeq(_)
SortedSeq(S) ==
    IF S = {} THEN << >>
    ELSE LET m == CHOOSE x \in S : \A y \in S : x <= y
         IN << m >> \o SortedSeq(S \ {m})

\* hashlib.md5 of the joined string, taken as injective on the strings the
\* page can produce: the digits of the sorted indices in base Len+1.
RECURSIVE Md5(_)
Md5(str) ==
    IF str = << >> THEN 0
    ELSE Md5(SubSeq(str, 1, Len(str) - 1)) * (Len(PeriodNames) + 1) + str[Len(str)]

NoHash == 0   \* get_period_hash returning None, also a state without period_hash

VARIABLES
    db,        \* the record store file: [exists, recs]
    backups,   \* whether BACKUP_DIR holds a backup file
    page,      \* periods the summary page shows
    state,     \* the monitor state file
    dirs,      \* the approval directories: id -> [exists, hasFile, recs]
    nextId,    \* the next run id (a timestamp in the code)
    emails,    \* approval ids whose notification was sent
    last,      \* what the last invocation did (its log and return values)
    merges,    \* history: followed approval id -> store writes of approve_records
    loop       \* the continuous-mode process: whether it runs, its self.state

\* The batch tools: one run of a tool reads the record file, works on the
\* list it loaded and, for the repair pass, writes the file back.
VARIABLES
    db_file,         \* the record file the batch tools load
    db_data,         \* the list a running tool holds (self.db_data, data)
    scaling_issues,  \* the periods analyze_current_state returned
    pc,              \* where the running tool is
    saved_files,     \* the files the runs of the repair pass saved, in order
    tables           \* what the analysis tool computed

monVars == << db, backups, page, state, dirs, nextId, emails, last, merges, loop >>
batchVars == << db_file, db_data, scaling_issues, pc, saved_files, tables >>
vars == << db, backups, page, state, dirs, nextId, emails, last, merges, loop,
           db_file, db_data, scaling_issues, pc, saved_files, tables >>

\* no batch tool is running
BatchIdle ==
    /\ db_file = << >>
    /\ db_data = << >>
    /\ scaling_issues = {}
    /\ pc = "idle"
    /\ saved_files = << >>
    /\ tables = << >>

Ids == 1..MaxUnits

NoDir == [exists |-> FALSE, hasFile |-> FALSE, recs |-> << >>]

\* load_monitor_state when the state file does not exist
DefaultState ==
    [period_hash |-> NoHash, known_periods |-> {}, pending_approvals |-> << >>]

\* no continuous-mode process is running
NoLoop == [running |-> FALSE, state |-> DefaultState]

Log(op, id, out) ==
    [op |-> op, id |-> id, out |-> out, backup |-> FALSE, failAt |-> 0,
     steps |-> 0, periods |-> {}, hash |-> NoHash, processed |-> NoFile]

Init ==
    /\ db \in { NoFile, [exists |-> TRUE, recs |-> << Stored >>] }
    /\ backups = FALSE
    /\ page \in Pages
    /\ state = DefaultState
    /\ dirs = [i \in Ids |-> NoDir]
    /\ nextId = 1
    /\ emails = {}
    /\ last = Log("init", 0, "none")
    /\ merges = << >>
    /\ loop = NoLoop
    /\ BatchIdle

\* ------------------------------------------------------------ poll helpers
\* cleanup_old_backups: the backup files past the retention date are
\* unlinked; `expired` says whether that is all of them.
CleanupOldBackups(expired) == backups /\ ~expired

\* get_latest_periods: the periods of the page, or set() on any failure
GetLatestPeriods(fetchOk) == IF fetchOk THEN page ELSE {}

\* get_period_hash: its own fetch of the page, hashed
GetPeriodHash(fetchOk) ==
    LET periods == GetLatestPeriods(fetchOk)
    IN IF periods # {} THEN Md5(SortedSeq(periods)) ELSE NoHash

\* CheckForUpdates reporting every detected period on a changed hash
CheckForUpdatesAnyChange(st, current_periods, current_hash) ==
    IF current_hash = NoHash
    THEN [updates |-> {}, state |-> st, saved |-> FALSE]
    ELSE IF st.period_hash # current_hash
         THEN [updates |-> current_periods,
               state |-> [st EXCEPT !.period_hash = current_hash,
                                    !.known_periods = current_periods],
               saved |-> TRUE]
         ELSE [updates |-> {}, state |-> st, saved |-> TRUE]

\* check_for_updates on the loaded state st: the new periods it reports
\* (empty: no update), the state it leaves and whether it saved the state
CheckForUpdates(st, current_periods, current_hash) ==
    IF current_hash = NoHash
    THEN [updates |-> {}, state |-> st, saved |-> FALSE]
    ELSE IF st.period_hash # current_hash
         THEN [updates |-> current_periods \ st.known_periods,
               state |-> [st EXCEPT !.period_hash = current_hash,
                                    !.known_periods = current_periods],
               saved |-> TRUE]
         ELSE [updates |-> {}, state |-> st, saved |-> TRUE]

\* create_database_backup: a path (TRUE) when the store exists and the copy
\* succeeds, None (FALSE) otherwise
CreateDatabaseBackup(copyOk) == db.exists /\ copyOk

NSteps == 4   \* download, HTML processing, FX update, USD conversion

\* run_processing_pipeline: the steps run in order, the first failing one
\* raises; failAt = 0 when none fails
RECURSIVE RunSteps(_, _)
RunSteps(i, failAt) ==
    IF i > NSteps THEN [ok |-> TRUE, steps |-> NSteps]
    ELSE IF i = failAt THEN [ok |-> FALSE, steps |-> i]
    ELSE RunSteps(i + 1, failAt)

\* RunProcessingPipeline ignoring the return codes
RunProcessingPipelineUnchecked(failAt) == [ok |-> TRUE, steps |-> NSteps]

RunProcessingPipeline(failAt) == RunSteps(1, failAt)

\* extract_new_records, first loop: the index of existing records
RECURSIVE ExistingKeys(_)
ExistingKeys(current_db) ==
    IF current_db = << >> THEN {}
    ELSE ExistingKeys(Tail(current_db)) \cup { KeyOf(Head(current_db)) }

\* extract_new_records, second loop
RECURSIVE FindNew(_, _)
FindNew(processed_data, existing_keys) ==
    IF processed_data = << >> THEN << >>
    ELSE LET record == Head(processed_data)
             rest == FindNew(Tail(processed_data), existing_keys)
         IN IF KeyOf(record) \notin existing_keys
            THEN << record >> \o rest
            ELSE rest

ExtractNewRecords(current_db, processed) ==
    IF ~processed.exists THEN << >>
    ELSE FindNew(processed.recs, ExistingKeys(current_db))

Entry(approval_id, n) ==
    [approval_id |-> approval_id, record_count |-> n, status |-> "pending"]

\* SendApprovalEmail assigning the pending list instead of appending to it
SendApprovalEmailReplacing(st, new_records, run_id, configured, smtpOk) ==
    LET unit == [exists |-> TRUE, hasFile |-> TRUE, recs |-> new_records]
    IN IF ~configured
       THEN [sent |-> FALSE, state |-> st, dirs |-> dirs, saved |-> FALSE]
       ELSE IF ~smtpOk
       THEN [sent |-> FALSE, state |-> st,
             dirs |-> [dirs EXCEPT ![run_id] = unit], saved |-> FALSE]
       ELSE [sent |-> TRUE,
             state |-> [st EXCEPT !.pending_approvals =
                            << Entry(run_id, Len(new_records)) >>],
             dirs |-> [dirs EXCEPT ![run_id] = unit], saved |-> TRUE]

\* send_approval_email: without the e-mail configuration nothing happens; with
\* it the unit's directory and new_records.json are written, and only a sent
\* message is followed by the pending entry and the state save
SendApprovalEmail(st, new_records, run_id, configured, smtpOk) ==
    LET unit == [exists |-> TRUE, hasFile |-> TRUE, recs |-> new_records]
    IN IF ~configured
       THEN [sent |-> FALSE, state |-> st, dirs |-> dirs, saved |-> FALSE]
       ELSE IF ~smtpOk
       THEN [sent |-> FALSE, state |-> st,
             dirs |-> [dirs EXCEPT ![run_id] = unit], saved |-> FALSE]
       ELSE [sent |-> TRUE,
             state |-> [st EXCEPT !.pending_approvals =
                            Append(@, Entry(run_id, Len(new_records)))],
             dirs |-> [dirs EXCEPT ![run_id] = unit], saved |-> TRUE]

PollLog(out, id, periods, hash, backup, failAt, steps, processed) ==
    [op |-> "poll", id |-> id, out |-> out, backup |-> backup, failAt |-> failAt,
     steps |-> steps, periods |-> periods, hash |-> hash, processed |-> processed]

\* run_daily_check in a process that has just loaded the state file
RunDailyCheck ==
    \E expired \in BOOLEAN, fetch1 \in BOOLEAN, fetch2 \in BOOLEAN :
      LET current_periods == GetLatestPeriods(fetch1)
          current_hash == GetPeriodHash(fetch2)
          chk == CheckForUpdates(state, current_periods, current_hash)
          saved == IF chk.saved THEN chk.state ELSE state
          kept == CleanupOldBackups(expired)
      IN
      /\ page' = page
      /\ db' = db
      /\ UNCHANGED << merges, loop >>
      /\ UNCHANGED batchVars
      /\ IF chk.updates = {}
         THEN /\ backups' = kept
              /\ state' = saved
              /\ last' = IF current_hash = NoHash
                         THEN PollLog("nohash", 0, current_periods, NoHash, FALSE, 0, 0,
                                      NoFile)
                         ELSE PollLog(IF state.period_hash = current_hash
                                      THEN "nochange" ELSE "nonew",
                                      0, current_periods, current_hash, FALSE, 0, 0, NoFile)
              /\ UNCHANGED << dirs, nextId, emails >>
         ELSE \E copyOk \in BOOLEAN :
           LET backup_path == CreateDatabaseBackup(copyOk)
           IN IF ~backup_path
              THEN /\ backups' = kept
                   /\ state' = saved
                   /\ last' = PollLog("nobackup", 0, current_periods, current_hash,
                                      FALSE, 0, 0, NoFile)
                   /\ UNCHANGED << dirs, nextId, emails >>
              ELSE \E failAt \in 0..NSteps :
                LET run_dir == RunProcessingPipeline(failAt)
                IN /\ backups' = TRUE
                   /\ IF ~run_dir.ok
                      THEN /\ state' = saved
                           /\ last' = PollLog("pipefail", 0, current_periods,
                                              current_hash, TRUE, failAt, run_dir.steps, NoFile)
                           /\ UNCHANGED << dirs, nextId, emails >>
                      ELSE \E output \in Outputs :
                        LET new_records == ExtractNewRecords(db.recs, output)
                        IN IF new_records = << >>
                              THEN /\ state' = saved
                                   /\ last' = PollLog("norecords", 0, current_periods,
                                                current_hash, TRUE, failAt, run_dir.steps, output)
                                   /\ UNCHANGED << dirs, nextId, emails >>
                              ELSE \E configured \in BOOLEAN, smtpOk \in BOOLEAN :
                                LET mail == SendApprovalEmail(chk.state, new_records,
                                                              nextId, configured, smtpOk)
                                IN /\ configured => nextId \in Ids
                                   /\ ~configured => smtpOk
                                   /\ state' = IF mail.saved THEN mail.state ELSE saved
                                   /\ dirs' = mail.dirs
                                   /\ nextId' = IF configured THEN nextId + 1 ELSE nextId
                                   /\ emails' = IF mail.sent THEN emails \cup { nextId }
                                                ELSE emails
                                   /\ last' = PollLog(IF mail.sent THEN "sent"
                                                      ELSE IF configured THEN "mailfail"
                                                      ELSE "nomailcfg",
                                                IF configured THEN nextId ELSE 0,
                                                current_periods, current_hash, TRUE,
                                                failAt, run_dir.steps, output)

\* ------------------------------------------------------- approval handlers
\* SetStatus without the approval id test
SetStatusAll(st, approval_id, status) ==
    [st EXCEPT !.pending_approvals =
        [i \in DOMAIN @ |-> [@[i] EXCEPT !.status = status]]]

\* the loop over state["pending_approvals"] that sets the status of the
\* entries with this approval id
SetStatus(st, approval_id, status) ==
    [st EXCEPT !.pending_approvals =
        [i \in DOMAIN @ |->
            IF @[i].approval_id = approval_id
            THEN [@[i] EXCEPT !.status = status]
            ELSE @[i]]]

\* RmTree that removes nothing
RmTreeLeaves(approval_id, fail) == dirs

\* shutil.rmtree(approval_dir): it removes the directory, or raises and
\* leaves it ("rmtree")
RmTree(approval_id, fail) ==
    IF fail = "rmtree" THEN dirs ELSE [dirs EXCEPT ![approval_id] = NoDir]

\* where an approve / reject invocation can raise after its checks
Failures == { "none", "save", "rmtree" }

\* Merge putting the new records first
MergeFront(current_db, new_records) == new_records \o current_db

\* the merge of approve_records
Merge(current_db, new_records) == current_db \o new_records

\* ApproveRecords opening the store for writing when it is absent
ApproveRecordsCreatingStore(approval_id) ==
    LET approval_dir == dirs[approval_id]
    IN
    /\ UNCHANGED << page, nextId, emails, loop >>
    /\ UNCHANGED batchVars
    /\ IF ~approval_dir.exists
       THEN /\ last' = Log("approve", 0, "notfound")
            /\ UNCHANGED << db, backups, state, dirs, merges >>
       ELSE IF ~approval_dir.hasFile
       THEN /\ last' = Log("approve", 0, "nofile")
            /\ UNCHANGED << db, backups, state, dirs, merges >>
       ELSE \E copyOk \in BOOLEAN, fail \in Failures :
         LET new_records == approval_dir.recs
             backup_path == CreateDatabaseBackup(copyOk)
         IN /\ Len(db.recs) + Len(new_records) <= MaxDb
            /\ backups' = (backups \/ backup_path)
            /\ db' = [exists |-> TRUE, recs |-> Merge(db.recs, new_records)]
            /\ merges' = [i \in DOMAIN merges |->
                              IF i = approval_id THEN merges[i] + 1 ELSE merges[i]]
            /\ state' = IF fail = "save" THEN state
                        ELSE SetStatus(state, approval_id, "approved")
            /\ dirs' = IF fail = "save" THEN dirs ELSE RmTree(approval_id, fail)
            /\ last' = [Log("approve", approval_id,
                            IF fail = "none" THEN "merged" ELSE fail)
                        EXCEPT !.backup = backup_path]

\* approve_records(approval_id) in a process that has just loaded the state
ApproveRecords(approval_id) ==
    LET approval_dir == dirs[approval_id]
    IN
    /\ UNCHANGED << page, nextId, emails, loop >>
    /\ UNCHANGED batchVars
    /\ IF ~approval_dir.exists
       THEN /\ last' = Log("approve", 0, "notfound")
            /\ UNCHANGED << db, backups, state, dirs, merges >>
       ELSE IF ~approval_dir.hasFile
       THEN /\ last' = Log("approve", 0, "nofile")
            /\ UNCHANGED << db, backups, state, dirs, merges >>
       ELSE \E copyOk \in BOOLEAN, fail \in Failures :
         LET new_records == approval_dir.recs
             backup_path == CreateDatabaseBackup(copyOk)
         IN IF ~db.exists
            THEN \* open(CURRENT_DB_PATH) raises
                 /\ last' = Log("approve", 0, "nodb")
                 /\ UNCHANGED << db, backups, state, dirs, merges >>
            ELSE /\ Len(db.recs) + Len(new_records) <= MaxDb
                 /\ backups' = (backups \/ backup_path)
                 /\ db' = [db EXCEPT !.recs = Merge(@, new_records)]
                 /\ merges' = [i \in DOMAIN merges |->
                                   IF i = approval_id THEN merges[i] + 1 ELSE merges[i]]
                 /\ state' = IF fail = "save" THEN state
                             ELSE SetStatus(state, approval_id, "approved")
                 /\ dirs' = IF fail = "save" THEN dirs ELSE RmTree(approval_id, fail)
                 /\ last' = [Log("approve", approval_id,
                                 IF fail = "none" THEN "merged" ELSE fail)
                             EXCEPT !.backup = backup_path]

\* reject_records(approval_id) in a process that has just loaded the state
RejectRecords(approval_id) ==
    LET approval_dir == dirs[approval_id]
    IN
    /\ UNCHANGED << db, backups, page, nextId, emails, merges, loop >>
    /\ UNCHANGED batchVars
    /\ IF ~approval_dir.exists
       THEN /\ last' = Log("reject", 0, "notfound")
            /\ UNCHANGED << state, dirs >>
       ELSE \E fail \in Failures :
            /\ state' = IF fail = "save" THEN state
                        ELSE SetStatus(state, approval_id, "rejected")
            /\ dirs' = IF fail = "save" THEN dirs ELSE RmTree(approval_id, fail)
            /\ last' = Log("reject", approval_id,
                           IF fail = "none" THEN "rejected" ELSE fail)

\* review_records(approval_id): prints the unit, writes nothing
ReviewRecords(approval_id) ==
    LET approval_dir == dirs[approval_id]
    IN
    /\ last' = Log("review", 0,
                   IF ~approval_dir.exists THEN "notfound"
                   ELSE IF ~approval_dir.hasFile THEN "nofile" ELSE "shown")
    /\ UNCHANGED << db, backups, page, state, dirs, nextId, emails, merges, loop >>
    /\ UNCHANGED batchVars

\* the entries list_pending_approvals prints
PendingEntries(st) ==
    SelectSeq(st.pending_approvals, LAMBDA a : a.status = "pending")

\* list_pending_approvals: prints the pending entries, writes nothing
ListPendingApprovals ==
    /\ last' = Log("list", 0, IF PendingEntries(state) = << >> THEN "nopending"
                              ELSE "listed")
    /\ UNCHANGED << db, backups, page, state, dirs, nextId, emails, merges, loop >>
    /\ UNCHANGED batchVars

\* The summary page changes (an external site).
PageUpdate ==
    /\ \E p \in Pages : p # page /\ page' = p
    /\ last' = Log("page", 0, "none")
    /\ UNCHANGED << db, backups, state, dirs, nextId, emails, merges, loop >>
    /\ UNCHANGED batchVars

Next ==
    \/ PageUpdate
    \/ RunDailyCheck
    \/ \E id \in Ids : ApproveRecords(id)
    \/ \E id \in Ids : RejectRecords(id)
    \/ \E id \in Ids : ReviewRecords(id)
    \/ ListPendingApprovals

Spec == Init /\ [][Next]_vars

\* ------------------------------------------------------------ observations
\* the status the state file holds for an approval id ("none": no entry)
StatusOf(st, approval_id) ==
    LET found == { i \in DOMAIN st.pending_approvals :
                     st.pending_approvals[i].approval_id = approval_id }
    IN IF found = {} THEN "none"
       ELSE st.pending_approvals[CHOOSE i \in found : TRUE].status

\* a pending approval unit: tracked as pending, with its directory and file
PendingUnit(approval_id) ==
    /\ StatusOf(state, approval_id) = "pending"
    /\ dirs[approval_id].exists
    /\ dirs[approval_id].hasFile

\* the composite key as the record model words it: Concept, or else
\* Concept_Section
ClaimKey(r) ==
    << r.Afore, r.Siefore,
       IF r.Concept # Missing THEN r.Concept
       ELSE IF r.Concept_Section # Missing THEN r.Concept_Section ELSE None,
       r.PeriodYear, r.PeriodMonth >>

\* the invocation that has just run merged unit id into the store
Merged(log, id) ==
    log.op = "approve" /\ log.id = id /\ log.out \in { "merged", "save", "rmtree" }

\* ------------------------------------------------------------------ C1
\* C1: starting from a store without duplicate keys, after any sequence of
\* polls, approvals and rejections no two records of the store share the
\* composite key.
C1_NoDuplicateKeys == db.exists => NoDuplicateKeys(db.recs)

\* ------------------------------------------------------------------ C2
\* C2: under approve_records / reject_records invocations a unit whose
\* status is approved or rejected never changes status again.
C2_StatusTerminal ==
    [][ last'.op \in { "approve", "reject" } =>
          \A id \in Ids :
             StatusOf(state, id) \in { "approved", "rejected" } =>
                StatusOf(state', id) = StatusOf(state, id) ]_vars

\* ------------------------------------------------------------------ C3
\* C3: approve_records writes the record store only after
\* create_database_backup returned a backup in the same invocation.
C3_BackupBeforeWrite ==
    [][ (last'.op = "approve" /\ ~last'.backup) => db' = db ]_vars

\* ------------------------------------------------------------------ C4
\* C4: an approve_records(id) that merges is a pure append: the store
\* afterwards is the store before followed by the records of the unit's
\* new_records.json, in their order.
C4_PureAppend ==
    [][ \A id \in Ids :
          Merged(last', id) =>
             LET old == db.recs
                 new == dirs[id].recs
             IN /\ Len(db'.recs) = Len(old) + Len(new)
                /\ \A i \in 1..Len(old) : db'.recs[i] = old[i]
                /\ \A j \in 1..Len(new) : db'.recs[Len(old) + j] = new[j] ]_vars

C4_Witness ==
    /\ last.op = "approve" /\ last.out = "merged"
    /\ db.recs = << Stored, NewB, NewA >>

C7_IndependentResolution ==
    [][ last'.op \in { "approve", "reject" } =>
          \A id \in Ids :
             id # last'.id =>
                /\ StatusOf(state', id) = StatusOf(state, id)
                /\ dirs'[id] = dirs[id] ]_vars

C7_Witness ==
    /\ last.op \in { "approve", "reject" } /\ last.id = 1
    /\ StatusOf(state, 1) \in { "approved", "rejected" }
    /\ PendingUnit(2)

\* ------------------------------------------------------------------ C8
\* C8: when a pipeline step fails the later steps are not run and the poll
\* ends there: store, notifications, approval directories and pending
\* entries are unchanged.
C8_PipelineFailureAborts ==
    [][ (last'.op = "poll" /\ last'.failAt # 0) =>
          /\ last'.out = "pipefail"
          /\ last'.steps = last'.failAt
          /\ db' = db
          /\ emails' = emails
          /\ dirs' = dirs
          /\ nextId' = nextId
          /\ state'.pending_approvals = state.pending_approvals ]_vars

C8_Witness ==
    /\ last.op = "poll" /\ last.out = "pipefail"
    /\ last.failAt = 2 /\ last.steps = 2

\* ------------------------------------------------------------------ C9
\* C9: a poll runs the pipeline exactly when it obtained a hash that differs
\* from the stored one, a detected period is not among the known periods,
\* and the backup before processing succeeded.
C9_PipelineTrigger ==
    [][ last'.op = "poll" =>
          ( last'.steps > 0 <=>
              /\ last'.hash # NoHash
              /\ last'.hash # state.period_hash
              /\ last'.periods \ state.known_periods # {}
              /\ last'.backup ) ]_vars

C9_Witness ==
    /\ last.op = "poll" /\ last.out = "nonew"
    /\ last.periods # {}
    /\ last.steps = 0

\* ----------------------------------------------------------------- C10
\* C10: the records a poll extracts are exactly the records of the processed
\* output whose key is not a key of the store, in output order; once the
\* notification is sent they are the new_records.json of a new unit that is
\* tracked as pending.
C10_Expected(processed, store) ==
    SelectSeq(processed.recs,
              LAMBDA r : \A i \in 1..Len(store) : ClaimKey(r) # ClaimKey(store[i]))

MaxRecs == 3      \* records in the file a batch tool loads
MaxRuns == 2      \* successive runs of the repair pass

Threshold == 1000000   \* 1_000_000_000_000 pesos
ScaleFactor == 1000

\* The numeric fields (valueMXN, FX_EOM, valueUSD) hold a number, which is
\* never negative for an amount or a rate, or one of two marks.
Absent == -1   \* the key is not in the dict
Null == -2     \* the key is there with the value None

\* dict.get(key) and dict.get(key, default) on a numeric field
GetNum(record, field) == IF record[field] = Absent THEN Null ELSE record[field]

GetNumDefault(record, field, default) ==
    IF record[field] = Absent THEN default ELSE record[field]

\* a record of the file as the batch tools read it
Row(afore, concept, month, value_mxn, fx_rate, value_usd) ==
    [Afore |-> afore, Concept |-> concept, PeriodYear |-> "2025",
     PeriodMonth |-> month, valueMXN |-> value_mxn, FX_EOM |-> fx_rate,
     valueUSD |-> value_usd]

TotalAssets == "Total de Activo"
MutualFunds == "Inversión en Fondos Mutuos"
ThirdParty == "Inversiones Tercerizadas"

\* The records a file under repair is made of: a May that was stored in
\* thousands, a June that is in scale or empty of assets, a rate of 0, a
\* missing value, a missing rate, USD values that are absent, null, right
\* or stale.
RepairRows ==
    { Row("XXI", TotalAssets, "05", 2, 2, 1),
      Row("XXI", TotalAssets, "05", 1000, 2, Absent),
      Row("XXI", TotalAssets, "05", Null, 2, Absent),
      Row("XXI", TotalAssets, "06", 1000000, 2, 7),
      Row("XXI", TotalAssets, "06", 0, 2, Absent),
      Row("XXI", MutualFunds, "05", 4, 0, 9),
      Row("XXI", MutualFunds, "05", Null, 2, 3),
      Row("XXI", MutualFunds, "06", 6, Absent, Null),
      Row("XXI", MutualFunds, "06", 8, 2, Null) }

RECURSIVE SeqsUpTo(_, _)
SeqsUpTo(S, n) ==
    IF n = 0 THEN { << >> }
    ELSE LET shorter == SeqsUpTo(S, n - 1)
         IN shorter \cup { Append(q, x) : q \in shorter, x \in S }

\* f"{record.get('PeriodYear')}-{record.get('PeriodMonth')}"
PeriodOf(record) == << Get(record, "PeriodYear"), Get(record, "PeriodMonth") >>

IsNumber(v) == v # Absent /\ v # Null

\* the period_totals loop of analyze_current_state: the sum, for one period,
\* of record.get('valueMXN', 0) over the total-assets records
RECURSIVE PeriodTotal(_, _)
PeriodTotal(data, period) ==
    IF data = << >> THEN 0
    ELSE LET record == Head(data)
         IN (IF Get(record, "Concept") = TotalAssets /\ PeriodOf(record) = period
             THEN GetNumDefault(record, "valueMXN", 0) ELSE 0)
            + PeriodTotal(Tail(data), period)

\* the keys of period_totals
TotalPeriods(data) ==
    { PeriodOf(data[i]) : i \in { j \in DOMAIN data :
                                    Get(data[j], "Concept") = TotalAssets } }

\* analyze_current_state raises: a total-assets record whose valueMXN is
\* null (int + None), or no record at all (the coverage percentages)
AnalyzeRaises(data) ==
    \/ data = << >>
    \/ \E i \in DOMAIN data :
          Get(data[i], "Concept") = TotalAssets /\ data[i].valueMXN = Null

\* AnalyzeCurrentState without the test total > 0
AnalyzeCurrentStateBelow(data) ==
    { period \in TotalPeriods(data) : PeriodTotal(data, period) < Threshold }

\* analyze_current_state: the periods it returns
AnalyzeCurrentState(data) ==
    { period \in TotalPeriods(data) :
        PeriodTotal(data, period) > 0 /\ PeriodTotal(data, period) < Threshold }

\* FixRecord that rescales the total-assets records only
FixRecordTotalsOnly(record, periods_to_fix) ==
    IF PeriodOf(record) \in periods_to_fix /\ Get(record, "Concept") = TotalAssets
    THEN [record EXCEPT !.valueUSD = Absent,
                        !.valueMXN = IF IsNumber(@) THEN @ * ScaleFactor ELSE @]
    ELSE record

\* the body of the loop of fix_scaling_issues
FixRecord(record, periods_to_fix) ==
    IF PeriodOf(record) \in periods_to_fix
    THEN [record EXCEPT !.valueUSD = Absent,
                        !.valueMXN = IF IsNumber(@) THEN @ * ScaleFactor ELSE @]
    ELSE record

\* fix_scaling_issues
FixScalingIssues(data, periods_to_fix) ==
    IF periods_to_fix = {} THEN data
    ELSE [i \in DOMAIN data |-> FixRecord(data[i], periods_to_fix)]

\* GenerateUsd that keeps a USD value it cannot compute
GenerateUsdKeepStale(record) ==
    LET value_mxn == GetNum(record, "valueMXN")
        fx_rate == GetNum(record, "FX_EOM")
    IN IF value_mxn # Null /\ fx_rate # Null /\ fx_rate > 0
          /\ ~IsNumber(record.valueUSD)
       THEN [record EXCEPT !.valueUSD = value_mxn \div fx_rate]
       ELSE record

\* the body of the loop of generate_usd_values
GenerateUsd(record) ==
    LET value_mxn == GetNum(record, "valueMXN")
        fx_rate == GetNum(record, "FX_EOM")
    IN IF value_mxn # Null /\ fx_rate # Null /\ fx_rate > 0
       THEN IF ~IsNumber(record.valueUSD)
            THEN [record EXCEPT !.valueUSD = value_mxn \div fx_rate]
            ELSE record
       ELSE IF record.valueUSD # Absent
            THEN [record EXCEPT !.valueUSD = Absent]
            ELSE record

\* generate_usd_values
GenerateUsdValues(data) == [i \in DOMAIN data |-> GenerateUsd(data[i])]

\* the monitor is not running
MonitorIdle ==
    /\ db = NoFile
    /\ backups = FALSE
    /\ page = { 2 }
    /\ state = DefaultState
    /\ dirs = [i \in Ids |-> NoDir]
    /\ nextId = 1
    /\ emails = {}
    /\ last = Log("init", 0, "none")
    /\ merges = << >>
    /\ loop = NoLoop

RepairInit ==
    /\ MonitorIdle
    /\ db_file \in SeqsUpTo(RepairRows, MaxRecs)
    /\ db_data = << >>
    /\ scaling_issues = {}
    /\ pc = "start"
    /\ saved_files = << >>
    /\ tables = << >>

\* load_data and create_backup; either can raise, which ends the run
LoadData ==
    /\ pc = "start"
    /\ \E ok \in BOOLEAN :
         /\ db_data' = IF ok THEN db_file ELSE << >>
         /\ pc' = IF ok THEN "loaded" ELSE "failed"
    /\ UNCHANGED << db_file, scaling_issues, saved_files, tables >>
    /\ UNCHANGED monVars

RunAnalyze ==
    /\ pc = "loaded"
    /\ IF AnalyzeRaises(db_data)
       THEN pc' = "failed" /\ scaling_issues' = scaling_issues
       ELSE pc' = "analyzed" /\ scaling_issues' = AnalyzeCurrentState(db_data)
    /\ UNCHANGED << db_file, db_data, saved_files, tables >>
    /\ UNCHANGED monVars

RunFixScaling ==
    /\ pc = "analyzed"
    /\ db_data' = FixScalingIssues(db_data, scaling_issues)
    /\ pc' = "fixed"
    /\ UNCHANGED << db_file, scaling_issues, saved_files, tables >>
    /\ UNCHANGED monVars

\* verify_fx_rates (it prints) and generate_usd_values
RunGenerateUsd ==
    /\ pc = "fixed"
    /\ db_data' = GenerateUsdValues(db_data)
    /\ pc' = "generated"
    /\ UNCHANGED << db_file, scaling_issues, saved_files, tables >>
    /\ UNCHANGED monVars

\* verify_fixes (it prints) and save_fixed_database; the process ends and
\* the operator may run the pass again
SaveFixedDatabase ==
    /\ pc = "generated"
    /\ db_file' = db_data
    /\ saved_files' = Append(saved_files, db_data)
    /\ pc' = IF Len(saved_files) + 1 < MaxRuns THEN "start" ELSE "done"
    /\ db_data' = << >>
    /\ scaling_issues' = {}
    /\ UNCHANGED tables
    /\ UNCHANGED monVars

RepairNext ==
    \/ LoadData
    \/ RunAnalyze
    \/ RunFixScaling
    \/ RunGenerateUsd
    \/ SaveFixedDatabase

SpecRepair == RepairInit /\ [][RepairNext]_vars

\* --------------------------------------------------- repair pass: claims
\* C11: a second run of the repair pass right after a first one changes no
\* record: the file the second run saves is the file the first run saved.
C11_Idempotent ==
    Len(saved_files) >= 2 => saved_files[2] = saved_files[1]

\* the sum of the local values of the total-assets records of a period
RECURSIVE C12_SumFrom(_, _, _)
C12_SumFrom(data, period, i) ==
    IF i > Len(data) THEN 0
    ELSE (IF /\ data[i].Concept = TotalAssets
             /\ << data[i].PeriodYear, data[i].PeriodMonth >> = period
             /\ IsNumber(data[i].valueMXN)
          THEN data[i].valueMXN ELSE 0)
         + C12_SumFrom(data, period, i + 1)

C12_PeriodsOf(data) ==
    { << data[i].PeriodYear, data[i].PeriodMonth >> : i \in DOMAIN data }

C13_Fields == { "Afore", "Concept", "PeriodYear", "PeriodMonth", "FX_EOM" }

\* C13: fix_scaling_issues multiplies the local value of every record of a
\* flagged period by 1000, whatever its concept, and removes its USD value;
\* it leaves the records of the other periods, and every other field, as
\* they were.
C13_FixScaling ==
    [][ (pc = "analyzed" /\ pc' = "fixed") =>
          /\ Len(db_data') = Len(db_data)
          /\ \A i \in DOMAIN db_data :
               IF << db_data[i].PeriodYear, db_data[i].PeriodMonth >> \in scaling_issues
               THEN /\ db_data'[i].valueUSD = Absent
                    /\ db_data'[i].valueMXN =
                          IF IsNumber(db_data[i].valueMXN)
                          THEN db_data[i].valueMXN * 1000
                          ELSE db_data[i].valueMXN
                    /\ \A f \in C13_Fields : db_data'[i][f] = db_data[i][f]
               ELSE db_data'[i] = db_data[i] ]_vars

\* the first run has rescaled a mutual-fund record of a flagged period,
\* dropped its USD value and left a record of another period alone
C13_Witness ==
    /\ pc = "fixed"
    /\ saved_files = << >>
    /\ \E i, j \in DOMAIN db_data :
          /\ PeriodOf(db_file[i]) \in scaling_issues
          /\ db_file[i].Concept = MutualFunds
          /\ IsNumber(db_file[i].valueUSD)
          /\ db_data[i].valueMXN = db_file[i].valueMXN * 1000
          /\ db_data[i].valueUSD = Absent
          /\ PeriodOf(db_file[j]) \notin scaling_issues
          /\ IsNumber(db_file[j].valueUSD)
          /\ db_data[j] = db_file[j]

C14_Fields == C13_Fields \cup { "valueMXN" }

\* C14 as stated: after generate_usd_values every record with a local value
\* and an FX rate carries a USD value and every other record carries none.
C14_Original ==
    pc = "generated" =>
        \A i \in DOMAIN db_data :
            IF IsNumber(db_data[i].valueMXN) /\ IsNumber(db_data[i].FX_EOM)
            THEN IsNumber(db_data[i].valueUSD)
            ELSE db_data[i].valueUSD = Absent

\* C14 (amended): after generate_usd_values every record that has a local
\* value and an FX rate greater than 0 carries a USD value, and every record
\* that lacks a local value or an FX rate greater than 0 carries none; the
\* step changes no other field of any record.
C14_Backfill ==
    [][ (pc = "fixed" /\ pc' = "generated") =>
          /\ Len(db_data') = Len(db_data)
          /\ \A i \in DOMAIN db_data :
               /\ IF /\ IsNumber(db_data[i].valueMXN)
                     /\ IsNumber(db_data[i].FX_EOM)
                     /\ db_data[i].FX_EOM > 0
                  THEN IsNumber(db_data'[i].valueUSD)
                  ELSE db_data'[i].valueUSD = Absent
               /\ \A f \in C14_Fields : db_data'[i][f] = db_data[i][f] ]_vars

\* the step has computed a USD value that was null, and removed one from a
\* record without a local value and one from a record whose rate is 0
C14_Witness ==
    /\ pc = "generated"
    /\ saved_files = << >>
    /\ \E i, j, k \in DOMAIN db_data :
          /\ db_file[i].valueUSD = Null
          /\ db_data[i].valueUSD * db_data[i].FX_EOM = db_data[i].valueMXN
          /\ db_data[i].valueUSD > 0
          /\ db_file[j].valueMXN = Null
          /\ IsNumber(db_file[j].valueUSD)
          /\ db_data[j].valueUSD = Absent
          /\ db_file[k].FX_EOM = 0
          /\ IsNumber(db_file[k].valueUSD)
          /\ db_data[k].valueUSD = Absent

\* C15: in the file a run of the repair pass saves, every record with a
\* local value and an FX rate (greater than 0, for the quotient to exist)
\* has a USD value within 1 unit of local value / FX rate.
C15_UsdExact ==
    \A n \in DOMAIN saved_files :
        \A i \in DOMAIN saved_files[n] :
            LET record == saved_files[n][i]
                diff == record.valueUSD * record.FX_EOM - record.valueMXN
            IN (/\ IsNumber(record.valueMXN)
                /\ IsNumber(record.FX_EOM)
                /\ record.FX_EOM > 0)
               => /\ IsNumber(record.valueUSD)
                  /\ diff <= record.FX_EOM
                  /\ -diff <= record.FX_EOM

\* ======================================================== table generators
\* src/generate_aum_table.py, src/generate_aum_table_mxn.py and
\* src/scripts/analysis/generate_professional_tables.py: the aggregation of
\* the records of one period by institution and the summary tables.

\* The institution names, in the order sorted() gives them (ASCII).
AforeNames == << "", "Azteca", "Unknown", "XXI" >>

AforeRank(afore) == CHOOSE i \in DOMAIN AforeNames : AforeNames[i] = afore

\* sorted(keys)
RECURSIVE SortedAfores(_)
SortedAfores(S) ==
    IF S = {} THEN << >>
    ELSE LET first == CHOOSE a \in S : \A b \in S : AforeRank(a) <= AforeRank(b)
         IN << first >> \o SortedAfores(S \ { first })

\* `not afore`: the key is missing, the value is None or the empty string
Falsy(afore) == afore \in { None, "" }

RECURSIVE SumSeq(_)
SumSeq(values) ==
    IF values = << >> THEN 0 ELSE Head(values) + SumSeq(Tail(values))

\* the sum a loop accumulates: record.get(field, 0) over the records of
\* one institution and concept
SumField(records, afore, concept, field) ==
    LET kept == SelectSeq(records, LAMBDA record :
                    Get(record, "Afore") = afore /\ Get(record, "Concept") = concept)
    IN SumSeq([i \in DOMAIN kept |-> GetNumDefault(kept[i], field, 0)])

\* A percentage part / total * 100 as the fraction num / den.
Fraction(num, den) == [num |-> num, den |-> den]

\* Percent that divides whatever the total is
PercentUnguarded(part, total) == Fraction(part * 100, total)

\* (part / total * 100) if total > 0 else 0
Percent(part, total) ==
    IF total > 0 THEN Fraction(part * 100, total) ELSE Fraction(0, 1)

\* ---- AUMAnalyzer (generate_aum_table.py)
\* filter_data_for_period with the period given
FilterDataForPeriod(data, target_period) ==
    SelectSeq(data, LAMBDA record :
        /\ Get(record, "PeriodYear") = target_period[1]
        /\ Get(record, "PeriodMonth") = target_period[2]
        /\ GetNum(record, "valueUSD") # Null)

\* calculate_aum_by_afore: institution -> [total_aum, mutual_fund_aum]
CalculateAumByAfore(data) ==
    LET Counted(record) ==
            /\ ~Falsy(Get(record, "Afore"))
            /\ GetNumDefault(record, "valueUSD", 0) # Null
        afores == { Get(data[i], "Afore") : i \in { j \in DOMAIN data : Counted(data[j]) } }
        Of(afore, concept) ==
            SumField(SelectSeq(data, Counted), afore, concept, "valueUSD")
    IN [afore \in afores |->
           [total_aum |-> Of(afore, TotalAssets),
            mutual_fund_aum |-> Of(afore, MutualFunds)]]

\* the rows of a summary table and its totals row
TableRow(afore, total, part) ==
    [Afore |-> afore, total |-> total, part |-> part, pct |-> Percent(part, total)]

TotalsRow(rows) ==
    LET total_sum == SumSeq([i \in DOMAIN rows |-> rows[i].total])
        part_sum == SumSeq([i \in DOMAIN rows |-> rows[i].part])
    IN TableRow("TOTAL", total_sum, part_sum)

\* create_summary_table
CreateSummaryTable(aum_data) ==
    LET sorted_afores == SortedAfores(DOMAIN aum_data)
        rows == [i \in DOMAIN sorted_afores |->
                    TableRow(sorted_afores[i],
                             aum_data[sorted_afores[i]].total_aum,
                             aum_data[sorted_afores[i]].mutual_fund_aum)]
    IN Append(rows, TotalsRow(rows))

\* ---- AUMAnalyzerMXN (generate_aum_table_mxn.py)
FilterDataForPeriodMxn(data, target_period) ==
    SelectSeq(data, LAMBDA record :
        /\ Get(record, "PeriodYear") = target_period[1]
        /\ Get(record, "PeriodMonth") = target_period[2]
        /\ GetNum(record, "valueMXN") # Null)

\* calculate_aum_by_afore of the MXN analyzer (the MXN sums; the summary
\* table in MXN reads no other)
CalculateAumByAforeMxn(data) ==
    LET Counted(record) ==
            /\ ~Falsy(Get(record, "Afore"))
            /\ GetNumDefault(record, "valueMXN", 0) # Null
        afores == { Get(data[i], "Afore") : i \in { j \in DOMAIN data : Counted(data[j]) } }
        Of(afore, concept) ==
            SumField(SelectSeq(data, Counted), afore, concept, "valueMXN")
    IN [afore \in afores |->
           [total_aum_mxn |-> Of(afore, TotalAssets),
            mutual_fund_aum_mxn |-> Of(afore, MutualFunds)]]

\* create_summary_table_mxn
CreateSummaryTableMxn(aum_data) ==
    LET sorted_afores == SortedAfores(DOMAIN aum_data)
        rows == [i \in DOMAIN sorted_afores |->
                    TableRow(sorted_afores[i],
                             aum_data[sorted_afores[i]].total_aum_mxn,
                             aum_data[sorted_afores[i]].mutual_fund_aum_mxn)]
    IN Append(rows, TotalsRow(rows))

\* ---- ProfessionalAUMAnalyzer (generate_professional_tables.py)
DisplayFactor == 1000   \* "convert millions to display format"

\* value_mxn / fx_rate if fx_rate > 0 else 0, in USD millions: valueMXN
\* being in millions of pesos, the division by 1_000_000 is in the unit
UsdMillions(record) ==
    IF record.FX_EOM > 0 THEN record.valueMXN \div record.FX_EOM ELSE 0

\* get_period_data(period, concept): institution -> USD millions
GetPeriodData(data, period, concept) ==
    LET Match(record) ==
            /\ Get(record, "PeriodYear") = period[1]
            /\ Get(record, "PeriodMonth") = period[2]
            /\ Get(record, "Concept") = concept
            /\ GetNum(record, "valueMXN") # Null
            /\ GetNum(record, "FX_EOM") # Null
        records == SelectSeq(data, Match)
        afores == { Get(records[i], "Afore") :
                      i \in { j \in DOMAIN records : ~Falsy(Get(records[j], "Afore")) } }
        Of(afore) ==
            LET kept == SelectSeq(records, LAMBDA record : Get(record, "Afore") = afore)
            IN SumSeq([i \in DOMAIN kept |-> UsdMillions(kept[i])])
    IN [afore \in afores |-> Of(afore)]

\* dict.get(afore, 0)
GetOrZero(afore_data, afore) ==
    IF afore \in DOMAIN afore_data THEN afore_data[afore] ELSE 0

\* create_aum_table: the table, or no table (None) without total-assets data
CreateAumTable(data, latest_period) ==
    LET total_aum_data == GetPeriodData(data, latest_period, TotalAssets)
        mf_aum_data == GetPeriodData(data, latest_period, MutualFunds)
        sorted_afores == SortedAfores(DOMAIN total_aum_data)
        rows == [i \in DOMAIN sorted_afores |->
                    TableRow(sorted_afores[i],
                             GetOrZero(total_aum_data, sorted_afores[i]) * DisplayFactor,
                             GetOrZero(mf_aum_data, sorted_afores[i]) * DisplayFactor)]
    IN IF DOMAIN total_aum_data = {} THEN << >>
       ELSE Append(rows, TotalsRow(rows))

ActiveRow(afore, total, mf, tp, active) ==
    [Afore |-> afore, total |-> total, mf |-> mf, tp |-> tp, part |-> active,
     pct |-> Percent(active, total)]

\* create_total_active_management_table
CreateTotalActiveManagementTable(data, latest_period) ==
    LET total_aum_data == GetPeriodData(data, latest_period, TotalAssets)
        mf_aum_data == GetPeriodData(data, latest_period, MutualFunds)
        tp_aum_data == GetPeriodData(data, latest_period, ThirdParty)
        sorted_afores == SortedAfores(DOMAIN total_aum_data)
        Mf(afore) == GetOrZero(mf_aum_data, afore) * DisplayFactor
        Tp(afore) == GetOrZero(tp_aum_data, afore) * DisplayFactor
        rows == [i \in DOMAIN sorted_afores |->
                    ActiveRow(sorted_afores[i],
                              GetOrZero(total_aum_data, sorted_afores[i]) * DisplayFactor,
                              Mf(sorted_afores[i]), Tp(sorted_afores[i]),
                              Mf(sorted_afores[i]) + Tp(sorted_afores[i]))]
        Sum(column) == SumSeq([i \in DOMAIN rows |-> rows[i][column]])
    IN IF DOMAIN total_aum_data = {} THEN << >>
       ELSE Append(rows, ActiveRow("TOTAL", Sum("total"), Sum("mf"), Sum("tp"),
                                   Sum("part")))

\* ---- GrowthAnalyzer.get_period_data (growth_analysis.py)
\* f"{month:02d}"
TwoDigits(n) == IF n < 10 THEN "0" \o ToString(n) ELSE ToString(n)

\* get_period_data(data, year, month):
\* institution -> [mutual_funds, third_party, total_active]
GrowthGetPeriodData(data, year, month) ==
    LET Match(record) ==
            /\ Get(record, "PeriodYear") = ToString(year)
            /\ Get(record, "PeriodMonth") = TwoDigits(month)
            /\ GetNum(record, "valueUSD") # Null
        records == SelectSeq(data, Match)
        AforeOf(record) == GetDefault(record, "Afore", "Unknown")
        afores == { AforeOf(records[i]) : i \in DOMAIN records }
        Of(afore, concept) ==
            LET kept == SelectSeq(records, LAMBDA record :
                            AforeOf(record) = afore /\ Get(record, "Concept") = concept)
            IN SumSeq([i \in DOMAIN kept |-> GetNumDefault(kept[i], "valueUSD", 0)])
    IN [afore \in afores |->
           [mutual_funds |-> Of(afore, MutualFunds),
            third_party |-> Of(afore, ThirdParty),
            total_active |-> Of(afore, MutualFunds) + Of(afore, ThirdParty)]]

\* ---- one run of a table generator over a record file
\* The records of the file: two institutions, a record without institution
\* and one with an empty one, an institution whose total assets are 0 and
\* one rate of 0; the period asked for is June or May 2025.
TableRows ==
    { Row("XXI", TotalAssets, "06", 8, 2, 4),
      Row("XXI", MutualFunds, "06", 4, 2, 2),
      Row("XXI", ThirdParty, "06", 4, 2, 2),
      Row("XXI", TotalAssets, "05", 8, 2, 4),
      Row("Azteca", TotalAssets, "06", 0, 2, 0),
      Row("Azteca", MutualFunds, "06", 4, 2, 2),
      Row("Azteca", ThirdParty, "06", 4, 0, Null),
      Row("", TotalAssets, "06", 8, 2, 4),
      Row(Missing, MutualFunds, "06", 4, 2, 2) }

TablePeriods == { << "2025", "06" >>, << "2025", "05" >> }
TableYears == { 2025 }
TableMonths == { 5, 6 }

TablesInit ==
    /\ MonitorIdle
    /\ db_file \in SeqsUpTo(TableRows, MaxRecs)
    /\ db_data = << >>
    /\ scaling_issues = {}
    /\ pc = "start"
    /\ saved_files = << >>
    /\ tables = << >>

Ran(tool, period, aggregate, rows) ==
    [tool |-> tool, period |-> period, aggregate |-> aggregate, rows |-> rows]

NoAggregate == [afore \in {} |-> 0]

\* AUMAnalyzer.run with --period given
AumAnalyzerRun ==
    /\ pc = "start"
    /\ \E period \in TablePeriods :
         LET filtered_data == FilterDataForPeriod(db_file, period)
             aum_data == CalculateAumByAfore(filtered_data)
         IN tables' =
              IF filtered_data = << >> THEN Ran("aum", period, NoAggregate, << >>)
              ELSE IF DOMAIN aum_data = {} THEN Ran("aum", period, aum_data, << >>)
              ELSE Ran("aum", period, aum_data, CreateSummaryTable(aum_data))
    /\ pc' = "done"
    /\ UNCHANGED << db_file, db_data, scaling_issues, saved_files >>
    /\ UNCHANGED monVars

\* AUMAnalyzerMXN.run with --period given (the MXN table)
AumAnalyzerMxnRun ==
    /\ pc = "start"
    /\ \E period \in TablePeriods :
         LET filtered_data == FilterDataForPeriodMxn(db_file, period)
             aum_data == CalculateAumByAforeMxn(filtered_data)
         IN tables' =
              IF filtered_data = << >> THEN Ran("aum_mxn", period, NoAggregate, << >>)
              ELSE IF DOMAIN aum_data = {} THEN Ran("aum_mxn", period, aum_data, << >>)
              ELSE Ran("aum_mxn", period, aum_data, CreateSummaryTableMxn(aum_data))
    /\ pc' = "done"
    /\ UNCHANGED << db_file, db_data, scaling_issues, saved_files >>
    /\ UNCHANGED monVars

ProfessionalAggregate(data, period) ==
    [concept \in { TotalAssets, MutualFunds, ThirdParty } |->
        GetPeriodData(data, period, concept)]

\* ProfessionalAUMAnalyzer.create_aum_table(period), as the application
\* calls it for the period selected
ProfessionalAumTable ==
    /\ pc = "start"
    /\ \E period \in TablePeriods :
         tables' = Ran("professional_aum", period,
                       ProfessionalAggregate(db_file, period),
                       CreateAumTable(db_file, period))
    /\ pc' = "done"
    /\ UNCHANGED << db_file, db_data, scaling_issues, saved_files >>
    /\ UNCHANGED monVars

\* ProfessionalAUMAnalyzer.create_total_active_management_table(period)
ProfessionalActiveTable ==
    /\ pc = "start"
    /\ \E period \in TablePeriods :
         tables' = Ran("professional_active", period,
                       ProfessionalAggregate(db_file, period),
                       CreateTotalActiveManagementTable(db_file, period))
    /\ pc' = "done"
    /\ UNCHANGED << db_file, db_data, scaling_issues, saved_files >>
    /\ UNCHANGED monVars

\* GrowthAnalyzer.get_period_data(data, year, month)
GrowthPeriodData ==
    /\ pc = "start"
    /\ \E year \in TableYears, month \in TableMonths :
         tables' = Ran("growth_period", << ToString(year), TwoDigits(month) >>,
                       GrowthGetPeriodData(db_file, year, month), << >>)
    /\ pc' = "done"
    /\ UNCHANGED << db_file, db_data, scaling_issues, saved_files >>
    /\ UNCHANGED monVars

TablesNext ==
    \/ AumAnalyzerRun
    \/ AumAnalyzerMxnRun
    \/ ProfessionalAumTable
    \/ ProfessionalActiveTable
    \/ GrowthPeriodData

SpecTables == TablesInit /\ [][TablesNext]_vars

\* ------------------------------------------------ table generators: claims
RECURSIVE SumFunction(_)
SumFunction(f) ==
    IF DOMAIN f = {} THEN 0
    ELSE LET x == CHOOSE y \in DOMAIN f : TRUE
         IN f[x] + SumFunction([y \in DOMAIN f \ { x } |-> f[y]])

C16_Professional == { "professional_aum", "professional_active" }

\* the record carries the value the tool aggregates
C16_HasValue(tool, record) ==
    IF tool \in C16_Professional
    THEN IsNumber(record.valueMXN) /\ IsNumber(record.FX_EOM)
    ELSE IF tool = "aum_mxn" THEN IsNumber(record.valueMXN)
    ELSE IsNumber(record.valueUSD)

\* that value: USD millions computed from the local value, the local value,
\* or the stored USD value
C16_Value(tool, record) ==
    IF tool \in C16_Professional
    THEN (IF record.FX_EOM > 0 THEN record.valueMXN \div record.FX_EOM ELSE 0)
    ELSE IF tool = "aum_mxn" THEN record.valueMXN
    ELSE record.valueUSD

\* the indices of the records of the period and concept that carry a value
C16_Matching(tool, period, concept) ==
    { i \in DOMAIN db_file :
        /\ << db_file[i].PeriodYear, db_file[i].PeriodMonth >> = period
        /\ db_file[i].Concept = concept
        /\ C16_HasValue(tool, db_file[i]) }

C16_RecordsSum(tool, period, concept) ==
    SumFunction([i \in C16_Matching(tool, period, concept) |->
                    C16_Value(tool, db_file[i])])

C16_Concepts(tool) ==
    IF tool \in C16_Professional THEN { TotalAssets, MutualFunds, ThirdParty }
    ELSE IF tool = "growth_period" THEN { MutualFunds, ThirdParty }
    ELSE { TotalAssets, MutualFunds }

\* the aggregated value of one institution for one concept
C16_Aggregated(run, afore, concept) ==
    IF run.tool \in C16_Professional
    THEN (IF afore \in DOMAIN run.aggregate[concept]
          THEN run.aggregate[concept][afore] ELSE 0)
    ELSE IF run.tool = "growth_period"
    THEN (IF concept = MutualFunds THEN run.aggregate[afore].mutual_funds
          ELSE run.aggregate[afore].third_party)
    ELSE IF run.tool = "aum_mxn"
    THEN (IF concept = TotalAssets THEN run.aggregate[afore].total_aum_mxn
          ELSE run.aggregate[afore].mutual_fund_aum_mxn)
    ELSE (IF concept = TotalAssets THEN run.aggregate[afore].total_aum
          ELSE run.aggregate[afore].mutual_fund_aum)

C16_Institutions(run) ==
    IF run.tool \in C16_Professional
    THEN UNION { DOMAIN run.aggregate[concept] : concept \in C16_Concepts(run.tool) }
    ELSE DOMAIN run.aggregate

\* C16: for every period and concept, the per-institution values an
\* aggregator returns sum to the sum of the values of all the records of
\* that period and concept, those without an institution included.
C16_AggregationExact ==
    pc = "done" =>
        \A concept \in C16_Concepts(tables.tool) :
            SumFunction([afore \in C16_Institutions(tables) |->
                            C16_Aggregated(tables, afore, concept)])
              = C16_RecordsSum(tables.tool, tables.period, concept)

\* the value columns of a table and the concepts they sum
C17_Columns(tool) ==
    IF tool = "professional_active"
    THEN { << "total", { TotalAssets } >>, << "mf", { MutualFunds } >>,
           << "tp", { ThirdParty } >>, << "part", { MutualFunds, ThirdParty } >> }
    ELSE { << "total", { TotalAssets } >>, << "part", { MutualFunds } >> }

\* the sum of a concept over the institutions that have records of it in
\* the period, in the unit of the table
C17_InstitutionsSum(tool, period, concept) ==
    SumFunction([i \in { j \in C16_Matching(tool, period, concept) :
                            db_file[j].Afore \notin { Missing, "" } } |->
                    C16_Value(tool, db_file[i])])
    * (IF tool \in C16_Professional THEN 1000 ELSE 1)

\* C17: in every table the TOTAL row is the last row, and each of its value
\* columns is the sum of that concept over all the institutions that have
\* records of it in the period.
C17_TotalRow ==
    (pc = "done" /\ tables.rows # << >>) =>
        LET rows == tables.rows
            total == rows[Len(rows)]
        IN /\ \A i \in DOMAIN rows : rows[i].Afore = "TOTAL" <=> i = Len(rows)
           /\ \A column \in C17_Columns(tables.tool) :
                 total[column[1]] =
                    SumFunction([concept \in column[2] |->
                        C17_InstitutionsSum(tables.tool, tables.period, concept)])

\* C18: a row whose total is 0 has a percent-of-total of exactly 0, no
\* division made; any other row has category / total * 100.
C18_PercentOfTotal ==
    pc = "done" =>
        \A i \in DOMAIN tables.rows :
            LET row == tables.rows[i]
            IN IF row.total = 0
               THEN row.pct = Fraction(0, 1)
               ELSE row.pct = Fraction(row.part * 100, row.total)

\* a table with an institution whose total is 0 and whose category is not,
\* above a TOTAL row with a percentage
C18_Witness ==
    /\ pc = "done"
    /\ tables.rows # << >>
    /\ \E i \in DOMAIN tables.rows :
          /\ tables.rows[i].total = 0
          /\ tables.rows[i].part > 0
          /\ tables.rows[i].pct = Fraction(0, 1)
    /\ tables.rows[Len(tables.rows)].total > 0
    /\ tables.rows[Len(tables.rows)].pct.num > 0

\* ========================================================= growth analysis
\* src/growth_analysis.py, GrowthAnalyzer.calculate_growth_rates over two
\* aggregates as get_period_data returns them.

AssetTypes == << "mutual_funds", "third_party", "total_active" >>

\* the aggregate of an institution that is in neither map
ZeroAssets == [mutual_funds |-> 0, third_party |-> 0, total_active |-> 0]

\* float('inf')
Infinity == Fraction(1, 0)

\* GrowthRate that reports assets that appeared as a growth of 100 %
GrowthRateFinite(current_val, historical_val) ==
    IF historical_val > 0
    THEN Fraction((current_val - historical_val) * 100, historical_val)
    ELSE IF current_val > 0 THEN Fraction(100, 1)
    ELSE Fraction(0, 1)

\* the growth rate of one asset type
GrowthRate(current_val, historical_val) ==
    IF historical_val > 0
    THEN Fraction((current_val - historical_val) * 100, historical_val)
    ELSE IF current_val > 0 THEN Infinity
    ELSE Fraction(0, 1)

\* AllAfores that takes the institutions of the current period only
AllAforesCurrent(current_data, historical_data) == DOMAIN current_data

\* all_afores = set(current_data.keys()) | set(historical_data.keys())
AllAfores(current_data, historical_data) ==
    DOMAIN current_data \cup DOMAIN historical_data

\* dict.get(afore, {'mutual_funds': 0, 'third_party': 0, 'total_active': 0})
GetAssets(period_data, afore) ==
    IF afore \in DOMAIN period_data THEN period_data[afore] ELSE ZeroAssets

\* the four columns row.update adds for one asset type
AssetColumns(asset_type, current_val, historical_val) ==
    (asset_type \o "_current" :> current_val)
    @@ (asset_type \o "_historical" :> historical_val)
    @@ (asset_type \o "_growth_rate" :> GrowthRate(current_val, historical_val))
    @@ (asset_type \o "_absolute_change" :> current_val - historical_val)

\* the row of one institution
GrowthRow(afore, current, historical, period_name) ==
    ("Afore" :> afore) @@ ("Period" :> period_name)
    @@ AssetColumns(AssetTypes[1], current[AssetTypes[1]], historical[AssetTypes[1]])
    @@ AssetColumns(AssetTypes[2], current[AssetTypes[2]], historical[AssetTypes[2]])
    @@ AssetColumns(AssetTypes[3], current[AssetTypes[3]], historical[AssetTypes[3]])

\* calculate_growth_rates
CalculateGrowthRates(current_data, historical_data, period_name) ==
    LET afores == SortedAfores(AllAfores(current_data, historical_data))
    IN [i \in DOMAIN afores |->
           GrowthRow(afores[i], GetAssets(current_data, afores[i]),
                     GetAssets(historical_data, afores[i]), period_name)]

\* The aggregates get_period_data can return for two institutions: each is
\* absent or has its two sums, and total_active is their sum.
GrowthAfores == { "Azteca", "XXI" }
MutualFundSums == { 0, 2, 4 }
ThirdPartySums == { 0, 2 }

GrowthAssets ==
    { [mutual_funds |-> mf, third_party |-> tp, total_active |-> mf + tp] :
        mf \in MutualFundSums, tp \in ThirdPartySums }

GrowthAggregates ==
    UNION { [afores -> GrowthAssets] : afores \in SUBSET GrowthAfores }

PeriodLabels == { "YTD", "1Y" }

GrowthInit ==
    /\ MonitorIdle
    /\ db_file = << >>
    /\ db_data = << >>
    /\ scaling_issues = {}
    /\ pc = "start"
    /\ saved_files = << >>
    /\ \E current_data \in GrowthAggregates, historical_data \in GrowthAggregates :
          tables = [tool |-> "growth", current_data |-> current_data,
                    historical_data |-> historical_data,
                    period_name |-> "", growth_data |-> << >>]

RunCalculateGrowthRates ==
    /\ pc = "start"
    /\ \E period_name \in PeriodLabels :
          tables' = [tables EXCEPT
                       !.period_name = period_name,
                       !.growth_data = CalculateGrowthRates(tables.current_data,
                                           tables.historical_data, period_name)]
    /\ pc' = "done"
    /\ UNCHANGED << db_file, db_data, scaling_issues, saved_files >>
    /\ UNCHANGED monVars

GrowthNext == RunCalculateGrowthRates

SpecGrowth == GrowthInit /\ [][GrowthNext]_vars

\* -------------------------------------------------- growth analysis: claims
\* the value of an institution on one side, 0 when the side does not have it
C19_Side(period_data, afore, asset_type) ==
    IF afore \in DOMAIN period_data THEN period_data[afore][asset_type] ELSE 0

C19_Types == { AssetTypes[i] : i \in DOMAIN AssetTypes }

\* C19: for every institution and each of the three asset categories the
\* growth is (current - historical) / historical * 100 when historical > 0,
\* the infinity sentinel exactly when historical is 0 and current > 0, and 0
\* when both are 0; the absolute change is current - historical throughout.
C19_GrowthRates ==
    pc = "done" =>
        \A i \in DOMAIN tables.growth_data, asset_type \in C19_Types :
            LET row == tables.growth_data[i]
                current_val == C19_Side(tables.current_data, row.Afore, asset_type)
                historical_val == C19_Side(tables.historical_data, row.Afore, asset_type)
                growth == row[asset_type \o "_growth_rate"]
            IN /\ historical_val > 0 =>
                    /\ growth.den # 0
                    /\ growth.num * historical_val
                         = (current_val - historical_val) * 100 * growth.den
               /\ (historical_val = 0 /\ current_val > 0) <=> growth = Infinity
               /\ (historical_val = 0 /\ current_val = 0) =>
                    growth.num = 0 /\ growth.den # 0
               /\ row[asset_type \o "_absolute_change"] = current_val - historical_val

\* one report with assets that appeared, assets that shrank and an asset
\* type that is 0 on both sides
C19_Witness ==
    /\ pc = "done"
    /\ \E i, j, k \in DOMAIN tables.growth_data :
          /\ tables.growth_data[i].mutual_funds_growth_rate = Infinity
          /\ tables.growth_data[i].mutual_funds_absolute_change
                = tables.growth_data[i].mutual_funds_current
          /\ tables.growth_data[j].total_active_growth_rate = Fraction(-200, 4)
          /\ tables.growth_data[k].third_party_current = 0
          /\ tables.growth_data[k].third_party_historical = 0
          /\ tables.growth_data[k].third_party_growth_rate = Fraction(0, 1)
          /\ tables.growth_data[k].third_party_absolute_change = 0

Dash == 45        \* ord('-')
Zero == 48        \* ord('0')
DigitChars == << "0", "1", "2", "3", "4", "5", "6", "7", "8", "9" >>

\* the characters of str(n)
RECURSIVE Digits(_)
Digits(n) ==
    IF n < 10 THEN << Zero + n >>
    ELSE Digits(n \div 10) \o << Zero + (n % 10) >>

\* the string made of the characters
RECURSIVE StrOf(_)
StrOf(chars) ==
    IF chars = << >> THEN ""
    ELSE StrOf(SubSeq(chars, 1, Len(chars) - 1))
         \o DigitChars[chars[Len(chars)] - Zero + 1]

\* The digit strings a period field can hold: a year, a month, a month
\* padded to two digits.
PeriodYears == 2019..2025
Numerals ==
    { Digits(n) : n \in PeriodYears \cup (1..12) }
    \cup { << Zero >> \o Digits(n) : n \in 1..9 }

\* the characters of a string
Chars(s) == CHOOSE chars \in Numerals : StrOf(chars) = s

\* int(s)
RECURSIVE IntOf(_)
IntOf(chars) ==
    IF chars = << >> THEN 0
    ELSE IntOf(SubSeq(chars, 1, Len(chars) - 1)) * 10 + (chars[Len(chars)] - Zero)

ParseInt(s) == IntOf(Chars(s))

\* a < b on strings
RECURSIVE StrLess(_, _)
StrLess(a, b) ==
    IF b = << >> THEN FALSE
    ELSE IF a = << >> THEN TRUE
    ELSE IF Head(a) # Head(b) THEN Head(a) < Head(b)
    ELSE StrLess(Tail(a), Tail(b))

\* the characters of f"{year}-{month}"
PeriodChars(period) == Chars(period[1]) \o << Dash >> \o Chars(period[2])

\* f"{year}-{month}"
PeriodString(period) == period[1] \o "-" \o period[2]

\* the (year, month) pairs of the records that have both
YearMonths(data) ==
    { << Get(data[i], "PeriodYear"), Get(data[i], "PeriodMonth") >> :
        i \in { j \in DOMAIN data : /\ ~Falsy(Get(data[j], "PeriodYear"))
                                    /\ ~Falsy(Get(data[j], "PeriodMonth")) } }

\* max(periods) on strings
MaxPeriod(periods) ==
    CHOOSE p \in periods :
        \A q \in periods : ~StrLess(PeriodChars(p), PeriodChars(q))

\* AUMAnalyzer.get_latest_period, ProfessionalAUMAnalyzer.get_latest_period
GetLatestPeriod(data) ==
    LET periods == YearMonths(data)
    IN IF periods = {} THEN None ELSE PeriodString(MaxPeriod(periods))

\* a < b on tuples of two integers
TupleLess(a, b) == a[1] < b[1] \/ (a[1] = b[1] /\ a[2] < b[2])

\* GrowthGetLatestPeriod comparing the months before the years
GrowthGetLatestPeriodByMonth(data) ==
    LET periods == { << ParseInt(p[1]), ParseInt(p[2]) >> : p \in YearMonths(data) }
    IN IF periods = {} THEN << Null, Null >>
       ELSE CHOOSE p \in periods :
               \A q \in periods : ~TupleLess(<< p[2], p[1] >>, << q[2], q[1] >>)

\* GrowthAnalyzer.get_latest_period: (latest_year, latest_month), or
\* (None, None)
GrowthGetLatestPeriod(data) ==
    LET periods == { << ParseInt(p[1]), ParseInt(p[2]) >> : p \in YearMonths(data) }
    IN IF periods = {} THEN << Null, Null >>
       ELSE CHOOSE p \in periods : \A q \in periods : ~TupleLess(p, q)

\* sorted(periods, reverse=True)
RECURSIVE SortedReverse(_)
SortedReverse(periods) ==
    IF periods = {} THEN << >>
    ELSE LET first == MaxPeriod(periods)
         IN << PeriodString(first) >> \o SortedReverse(periods \ { first })

\* get_available_periods (consar_app.py)
GetAvailablePeriods(data) ==
    IF data = << >> THEN << >> ELSE SortedReverse(YearMonths(data))

PeriodRow(year, month) ==
    [Row("XXI", TotalAssets, month, 8, 2, 4) EXCEPT !.PeriodYear = year]

\* The records of the file: three padded periods, a month that is not
\* padded, a record without year and one with an empty month.
PeriodRows ==
    { PeriodRow("2023", "12"), PeriodRow("2024", "01"), PeriodRow("2024", "11"),
      PeriodRow("2024", "9"), PeriodRow(Missing, "12"), PeriodRow("2024", "") }

PeriodsInit ==
    /\ MonitorIdle
    /\ db_file \in SeqsUpTo(PeriodRows, MaxRecs)
    /\ db_data = << >>
    /\ scaling_issues = {}
    /\ pc = "start"
    /\ saved_files = << >>
    /\ tables = << >>

\* what a tool selected: the period string (None without periods), the
\* integer pair, the list of the application
Selected(tool, latest, pair, periods) ==
    [tool |-> tool, latest |-> latest, pair |-> pair, periods |-> periods]

\* AUMAnalyzer.get_latest_period(data), as run calls it without --period
AumLatestPeriod ==
    /\ pc = "start"
    /\ tables' = Selected("aum", GetLatestPeriod(db_file), << >>, << >>)
    /\ pc' = "done"
    /\ UNCHANGED << db_file, db_data, scaling_issues, saved_files >>
    /\ UNCHANGED monVars

\* ProfessionalAUMAnalyzer.get_latest_period()
ProfessionalLatestPeriod ==
    /\ pc = "start"
    /\ tables' = Selected("professional", GetLatestPeriod(db_file), << >>, << >>)
    /\ pc' = "done"
    /\ UNCHANGED << db_file, db_data, scaling_issues, saved_files >>
    /\ UNCHANGED monVars

\* GrowthAnalyzer.get_latest_period(data)
GrowthLatestPeriod ==
    /\ pc = "start"
    /\ tables' = Selected("growth", None, GrowthGetLatestPeriod(db_file), << >>)
    /\ pc' = "done"
    /\ UNCHANGED << db_file, db_data, scaling_issues, saved_files >>
    /\ UNCHANGED monVars

\* get_available_periods(data) of the application
AppAvailablePeriods ==
    /\ pc = "start"
    /\ tables' = Selected("app", None, << >>, GetAvailablePeriods(db_file))
    /\ pc' = "done"
    /\ UNCHANGED << db_file, db_data, scaling_issues, saved_files >>
    /\ UNCHANGED monVars

PeriodsNext ==
    \/ AumLatestPeriod
    \/ ProfessionalLatestPeriod
    \/ GrowthLatestPeriod
    \/ AppAvailablePeriods

SpecPeriods == PeriodsInit /\ [][PeriodsNext]_vars

\* ------------------------------------------------ period selection: claims
\* every record has a four-character year and a two-character month
C21_FixedWidth(data) ==
    \A i \in DOMAIN data :
        /\ data[i].PeriodYear # Missing /\ Len(data[i].PeriodYear) = 4
        /\ data[i].PeriodMonth # Missing /\ Len(data[i].PeriodMonth) = 2

\* the (year, month) pairs of the file that no other pair follows, the
\* years compared first and the months next
C21_Maximal(data) ==
    LET pairs == { << data[i].PeriodYear, data[i].PeriodMonth >> : i \in DOMAIN data }
    IN { p \in pairs :
           \A q \in pairs :
              \/ ParseInt(q[1]) < ParseInt(p[1])
              \/ (q[1] = p[1] /\ ParseInt(q[2]) <= ParseInt(p[2])) }

\* C21: on a non-empty file whose years and months are fixed-width
\* zero-padded strings, the period each selector returns is the maximal
\* (year, month) pair: the string maximum of the AUM analyzers, the integer
\* tuple of the growth analyzer and the first of the application's list are
\* the same period.
C21_LatestPeriod ==
    (pc = "done" /\ db_file # << >> /\ C21_FixedWidth(db_file)) =>
        \E p \in C21_Maximal(db_file) :
            /\ C21_Maximal(db_file) = { p }
            /\ tables.tool \in { "aum", "professional" } =>
                  tables.latest = p[1] \o "-" \o p[2]
            /\ tables.tool = "growth" =>
                  /\ ToString(tables.pair[1]) = p[1]
                  /\ TwoDigits(tables.pair[2]) = p[2]
            /\ tables.tool = "app" =>
                  /\ tables.periods # << >>
                  /\ tables.periods[1] = p[1] \o "-" \o p[2]

\* the periods of the example, for each selector
C21_WitnessFile ==
    /\ Len(db_file) = 3
    /\ { << db_file[i].PeriodYear, db_file[i].PeriodMonth >> : i \in DOMAIN db_file }
          = { << "2023", "12" >>, << "2024", "01" >>, << "2024", "11" >> }

C21_Witness ==
    /\ pc = "done"
    /\ C21_WitnessFile
    /\ tables.tool = "growth"
    /\ tables.pair = << 2024, 11 >>

\* ========================================================== growth report
\* src/growth_analysis.py, GrowthAnalyzer.run_analysis: the latest period,
\* the comparison windows and the rows of the windows that have historical
\* data; ProfessionalAUMAnalyzer.calculate_dynamic_periods beside it.

December == 12

Window(period_name, comp_year, comp_month) ==
    [name |-> period_name, year |-> comp_year, month |-> comp_month]

\* ComparisonPeriods with a year-to-date window in every month, December
\* of the latest year when the latest month is December
ComparisonPeriodsAlwaysYtd(latest_year, latest_month) ==
    << Window("YTD", IF latest_month # December THEN latest_year - 1
                     ELSE latest_year, December),
       Window("1Y", latest_year - 1, latest_month),
       Window("3Y", latest_year - 3, latest_month),
       Window("5Y", latest_year - 5, latest_month) >>

\* the periods list of run_analysis
ComparisonPeriods(latest_year, latest_month) ==
    (IF latest_month # December
     THEN << Window("YTD", IF latest_month <= December THEN latest_year - 1
                           ELSE latest_year, December) >>
     ELSE << >>)
    \o << Window("1Y", latest_year - 1, latest_month),
          Window("3Y", latest_year - 3, latest_month),
          Window("5Y", latest_year - 5, latest_month) >>

\* WindowGrowth without the test of historical_data
WindowGrowthUnchecked(data, current_data, window) ==
    CalculateGrowthRates(current_data,
                         GrowthGetPeriodData(data, window.year, window.month),
                         window.name)

\* the body of the loop over the periods: the rows one window adds
WindowGrowth(data, current_data, window) ==
    LET historical_data == GrowthGetPeriodData(data, window.year, window.month)
    IN IF DOMAIN historical_data # {}
       THEN CalculateGrowthRates(current_data, historical_data, window.name)
       ELSE << >>

\* all_growth_data after the loop
RECURSIVE AllGrowthData(_, _, _)
AllGrowthData(data, current_data, periods) ==
    IF periods = << >> THEN << >>
    ELSE WindowGrowth(data, current_data, Head(periods))
         \o AllGrowthData(data, current_data, Tail(periods))

Analysis(latest, periods, growth_data, returned) ==
    [tool |-> "growth_analysis", latest |-> latest, periods |-> periods,
     growth_data |-> growth_data, returned |-> returned]

\* run_analysis: what it returns ("df" with the rows and current_period, or
\* None) and the windows it defined
RunAnalysis(data) ==
    LET latest == GrowthGetLatestPeriod(data)
        latest_year == latest[1]
        latest_month == latest[2]
        current_data == GrowthGetPeriodData(data, latest_year, latest_month)
        periods == ComparisonPeriods(latest_year, latest_month)
        all_growth_data == AllGrowthData(data, current_data, periods)
    IN IF latest_year = Null THEN Analysis(latest, << >>, << >>, None)
       ELSE IF all_growth_data = << >> THEN Analysis(latest, periods, << >>, None)
       ELSE Analysis(latest, periods, all_growth_data,
                     ToString(latest_year) \o "-" \o TwoDigits(latest_month))

\* strftime("%Y-%m") of the first day of a month
StrfTime(year, month) == ToString(year) \o "-" \o TwoDigits(month)

\* calculate_dynamic_periods(latest_period); {} without a latest period
CalculateDynamicPeriods(latest_period) ==
    LET latest_year == ParseInt(latest_period[1])
        latest_month == ParseInt(latest_period[2])
    IN [current |-> PeriodString(latest_period),
        ytd_baseline |-> ToString(latest_year - 1) \o "-12",
        one_year |-> StrfTime(latest_year - 1, latest_month),
        three_year |-> StrfTime(latest_year - 3, latest_month),
        five_year |-> StrfTime(latest_year - 5, latest_month)]

AnalysisRow(afore, concept, year, month, value_usd) ==
    [Row(afore, concept, month, 8, 2, value_usd) EXCEPT !.PeriodYear = year]

\* The records of the file: a latest period in November or in December, and
\* records one, three and five years before; one of them carries no USD
\* value.
AnalysisRows ==
    { AnalysisRow("XXI", MutualFunds, "2024", "11", 4),
      AnalysisRow("XXI", MutualFunds, "2024", "12", 4),
      AnalysisRow("XXI", MutualFunds, "2023", "12", 2),
      AnalysisRow("Azteca", ThirdParty, "2023", "11", 2),
      AnalysisRow("XXI", MutualFunds, "2023", "11", Null),
      AnalysisRow("XXI", ThirdParty, "2021", "11", 2),
      AnalysisRow("XXI", TotalAssets, "2019", "11", 2),
      AnalysisRow("XXI", MutualFunds, "2019", "12", 2) }

AnalysisInit ==
    /\ MonitorIdle
    /\ db_file \in SeqsUpTo(AnalysisRows, MaxRecs)
    /\ db_data = << >>
    /\ scaling_issues = {}
    /\ pc = "start"
    /\ saved_files = << >>
    /\ tables = << >>

\* GrowthAnalyzer.run_analysis()
GrowthRunAnalysis ==
    /\ pc = "start"
    /\ tables' = RunAnalysis(db_file)
    /\ pc' = "done"
    /\ UNCHANGED << db_file, db_data, scaling_issues, saved_files >>
    /\ UNCHANGED monVars

\* ProfessionalAUMAnalyzer.run: get_latest_period, calculate_dynamic_periods
ProfessionalDynamicPeriods ==
    /\ pc = "start"
    /\ LET periods == YearMonths(db_file)
       IN tables' = [tool |-> "professional",
                     latest |-> GetLatestPeriod(db_file),
                     periods |-> IF periods = {} THEN << >>
                                 ELSE CalculateDynamicPeriods(MaxPeriod(periods))]
    /\ pc' = "done"
    /\ UNCHANGED << db_file, db_data, scaling_issues, saved_files >>
    /\ UNCHANGED monVars

AnalysisNext ==
    \/ GrowthRunAnalysis
    \/ ProfessionalDynamicPeriods

SpecAnalysis == AnalysisInit /\ [][AnalysisNext]_vars

\* --------------------------------------------------- growth report: claims
\* the labels of the Period column of the rows
C22_Labels(rows) == { rows[i].Period : i \in DOMAIN rows }

\* the file has a record of the period
C22_HasRecords(year, month) ==
    \E i \in DOMAIN db_file :
        /\ db_file[i].PeriodYear = ToString(year)
        /\ db_file[i].PeriodMonth = TwoDigits(month)

\* the file has a record of the period that carries a USD value
C22_HasUsdRecords(year, month) ==
    \E i \in DOMAIN db_file :
        /\ db_file[i].PeriodYear = ToString(year)
        /\ db_file[i].PeriodMonth = TwoDigits(month)
        /\ IsNumber(db_file[i].valueUSD)

C22_Report == pc = "done" /\ tables.tool = "growth_analysis"

\* C22 as stated: the labels of the Period column are exactly the windows
\* whose historical period has records.
C22_Original ==
    C22_Report =>
        C22_Labels(tables.growth_data)
           = { tables.periods[i].name :
                 i \in { j \in DOMAIN tables.periods :
                           C22_HasRecords(tables.periods[j].year,
                                          tables.periods[j].month) } }

\* C22 (amended): a window whose historical period has no record carrying a
\* USD value (in particular no record at all) contributes no row, and the
\* labels of the Period column are exactly the windows whose historical
\* period has a record carrying a USD value; no row has a fabricated
\* historical side.
C22_WindowSkip ==
    C22_Report =>
        /\ C22_Labels(tables.growth_data)
              = { tables.periods[i].name :
                    i \in { j \in DOMAIN tables.periods :
                              C22_HasUsdRecords(tables.periods[j].year,
                                                tables.periods[j].month) } }
        /\ \A i \in DOMAIN tables.periods :
              ~C22_HasRecords(tables.periods[i].year, tables.periods[i].month)
                 => tables.periods[i].name \notin C22_Labels(tables.growth_data)

\* a report for November 2024 with the 1Y and 3Y windows and without the
\* YTD and 5Y windows, which have no record
C22_Witness ==
    /\ C22_Report
    /\ tables.latest = << 2024, 11 >>
    /\ Len(tables.periods) = 4
    /\ C22_Labels(tables.growth_data) = { "1Y", "3Y" }
    /\ ~C22_HasRecords(2023, 12)
    /\ ~C22_HasRecords(2019, 11)

\* the historical periods of the windows labelled YTD
C23_Ytd(periods) ==
    { << periods[i].year, periods[i].month >> :
        i \in { j \in DOMAIN periods : periods[j].name = "YTD" } }

C23_Found == C22_Report /\ tables.latest[1] # Null

\* C23 as stated: the year-to-date baseline of the growth calculator is
\* December of the prior year when the latest month is not December, and
\* December of the latest year when it is.
C23_Original ==
    C23_Found =>
        C23_Ytd(tables.periods) =
            { IF tables.latest[2] # 12 THEN << tables.latest[1] - 1, 12 >>
              ELSE << tables.latest[1], 12 >> }

\* C23 (amended): the year-to-date baseline of the growth calculator is
\* December of the prior year when the latest month is not December, and
\* when the latest month is December there is no year-to-date window;
\* calculate_dynamic_periods takes December of the prior year in every
\* month.
C23_YtdBaseline ==
    /\ C23_Found =>
          C23_Ytd(tables.periods) =
              IF tables.latest[2] # 12
              THEN { << tables.latest[1] - 1, 12 >> } ELSE { }
    /\ (pc = "done" /\ tables.tool = "professional" /\ tables.periods # << >>) =>
          \E year \in PeriodYears :
              /\ Len(tables.latest) = 7
              /\ tables.periods.current = tables.latest
              /\ \E month \in 1..12 :
                    tables.latest = ToString(year) \o "-" \o TwoDigits(month)
              /\ tables.periods.ytd_baseline = ToString(year - 1) \o "-12"

\* a report for December 2024: the 1Y window against December 2023 and no
\* YTD window
C23_Witness ==
    /\ C23_Found
    /\ tables.latest = << 2024, 12 >>
    /\ C23_Ytd(tables.periods) = { }
    /\ C22_Labels(tables.growth_data) = { "1Y" }

\* ============================================================== ingestion
\* src/fixed_process_consar_reports.py: the script loads the JSON database,
\* indexes its keys, parses every report of the HTML folder and saves the
\* database.  A report is taken as the cells that reach the value loop of
\* parse_html_file: institution, concept in force, period header and value
\* text.  db_file is the database file, db_data the list `database`, and
\* tables holds the folder, existing_keys and the counter of the run.

MaxCells == 2     \* value cells in a report

Century == 2000   \* (datetime.now().year // 100) * 100

\* month_map_es, for the months of the reports
MonthMapEs == [Jun |-> "06", Jul |-> "07"]

PeriodText(month_es, year) == [month |-> month_es, year |-> year]

\* normalize_period: (year, month) as strings, or (None, None)
NormalizePeriod(period_text) ==
    IF period_text.month \in DOMAIN MonthMapEs
    THEN << ToString(IF period_text.year < 100
                     THEN period_text.year + Century ELSE period_text.year),
            MonthMapEs[period_text.month] >>
    ELSE << None, None >>

Cell(afore_name, current_concept, period, val_str) ==
    [afore_name |-> afore_name, current_concept |-> current_concept,
     period |-> period, val_str |-> val_str]

\* The cells of a report: June 2025 written in two ways and with two
\* values, July 2025, a header that is no period, a value that is "n/d"
\* (Null: float() is not reached or raises).
Cells ==
    { Cell("XXI", TotalAssets, PeriodText("Jun", 2025), 8),
      Cell("XXI", TotalAssets, PeriodText("Jun", 25), 9),
      Cell("XXI", TotalAssets, PeriodText("Jul", 2025), 8),
      Cell("XXI", TotalAssets, PeriodText("Total", 0), 8),
      Cell("XXI", TotalAssets, PeriodText("Jun", 2025), Null) }

Report(siefore_name, readable, cells) ==
    [siefore_name |-> siefore_name, readable |-> readable, cells |-> cells]

\* The HTML folder: no report, one report, or that report and a second one
\* of another fund, which may be unreadable.
SecondReports ==
    { Report("sb2", TRUE, << Cell("XXI", TotalAssets, PeriodText("Jun", 2025), 8) >>),
      Report("sb2", FALSE, << >>) }

HtmlFolders ==
    { << >> }
    \cup { << Report("sb1", TRUE, cells) >> : cells \in SeqsUpTo(Cells, MaxCells) }
    \cup { << Report("sb1", TRUE, cells), second >> :
             cells \in SeqsUpTo(Cells, MaxCells), second \in SecondReports }

DbRecord(afore, siefore, concept, value_mxn, year, month) ==
    [Afore |-> afore, Siefore |-> siefore, Concept |-> concept,
     valueMXN |-> value_mxn, PeriodYear |-> year, PeriodMonth |-> month]

JsonFile(exists, valid, recs) == [exists |-> exists, valid |-> valid, recs |-> recs]

\* The database file before the first run: absent, not valid JSON, empty,
\* holding June 2025 of sb1 (once, twice, or without Concept), or holding a
\* record without Afore.
DatabaseFiles ==
    { JsonFile(FALSE, FALSE, << >>),
      JsonFile(TRUE, FALSE, << >>),
      JsonFile(TRUE, TRUE, << >>),
      JsonFile(TRUE, TRUE, << DbRecord("XXI", "sb1", TotalAssets, 7, "2025", "06") >>),
      JsonFile(TRUE, TRUE, << DbRecord("XXI", "sb1", TotalAssets, 7, "2025", "06"),
                              DbRecord("XXI", "sb1", TotalAssets, 7, "2025", "06") >>),
      JsonFile(TRUE, TRUE, << DbRecord("XXI", "sb1", Missing, 7, "2025", "06") >>),
      JsonFile(TRUE, TRUE, << DbRecord(Missing, "sb1", TotalAssets, 7, "2025", "06") >>) }

\* "LOAD EXISTING DATA": the list of the file, [] without a valid file
LoadDatabase(file) == IF file.exists /\ file.valid THEN file.recs ELSE << >>

\* d["Afore"], d["Siefore"], d["PeriodYear"], d["PeriodMonth"] raise
\* KeyError on a record without the key
RaisesKeyError(database) ==
    \E i \in DOMAIN database :
        \E field \in { "Afore", "Siefore", "PeriodYear", "PeriodMonth" } :
            database[i][field] = Missing

\* "INDEX EXISTING RECORDS FOR DEDUPLICATION": the database and the keys
\* after it
IndexExistingRecords(database) ==
    IF RaisesKeyError(database)
    THEN [database |-> << >>, existing_keys |-> {}]
    ELSE [database |-> database,
          existing_keys |->
              { << database[i].Afore, database[i].Siefore,
                   GetDefault(database[i], "Concept", ""),
                   database[i].PeriodYear, database[i].PeriodMonth >> :
                  i \in DOMAIN database }]

\* ParseCells that does not add the key of a record it appends
RECURSIVE ParseCellsNoAdd(_, _, _)
ParseCellsNoAdd(cells, siefore_name, existing_keys) ==
    IF cells = << >> THEN [records |-> << >>, existing_keys |-> existing_keys]
    ELSE LET cell == Head(cells)
             period == NormalizePeriod(cell.period)
             key == << cell.afore_name, siefore_name, cell.current_concept,
                       period[1], period[2] >>
             rest == ParseCellsNoAdd(Tail(cells), siefore_name, existing_keys)
         IN IF cell.val_str = Null \/ period[1] = None \/ key \in existing_keys
            THEN rest
            ELSE [rest EXCEPT !.records =
                     << DbRecord(cell.afore_name, siefore_name, cell.current_concept,
                                 cell.val_str, period[1], period[2]) >> \o @]

\* the value loop of parse_html_file over the cells of one report: the
\* records it appends and existing_keys after it
RECURSIVE ParseCells(_, _, _)
ParseCells(cells, siefore_name, existing_keys) ==
    IF cells = << >> THEN [records |-> << >>, existing_keys |-> existing_keys]
    ELSE LET cell == Head(cells)
             period == NormalizePeriod(cell.period)
             key == << cell.afore_name, siefore_name, cell.current_concept,
                       period[1], period[2] >>
         IN IF cell.val_str = Null \/ period[1] = None \/ key \in existing_keys
            THEN ParseCells(Tail(cells), siefore_name, existing_keys)
            ELSE LET rest == ParseCells(Tail(cells), siefore_name,
                                        existing_keys \cup { key })
                 IN [rest EXCEPT !.records =
                        << DbRecord(cell.afore_name, siefore_name,
                                    cell.current_concept, cell.val_str,
                                    period[1], period[2]) >> \o @]

\* parse_html_file; open() raises on a report that cannot be read
ParseHtmlFile(report, existing_keys) ==
    IF ~report.readable
    THEN [raised |-> TRUE, records |-> << >>, existing_keys |-> existing_keys]
    ELSE LET parsed == ParseCells(report.cells, report.siefore_name, existing_keys)
         IN [raised |-> FALSE, records |-> parsed.records,
             existing_keys |-> parsed.existing_keys]

IngestInit ==
    /\ MonitorIdle
    /\ db_file \in DatabaseFiles
    /\ db_data = << >>
    /\ scaling_issues = {}
    /\ pc = "start"
    /\ saved_files = << >>
    /\ \E html_folder \in HtmlFolders :
          tables = [tool |-> "ingest", html_folder |-> html_folder,
                    existing_keys |-> {}, newly_added_records_count |-> 0,
                    next |-> 1]

\* lines 12-38: load the database and index its keys
IngestLoad ==
    /\ pc = "start"
    /\ LET indexed == IndexExistingRecords(LoadDatabase(db_file))
       IN /\ db_data' = indexed.database
          /\ tables' = [tables EXCEPT !.existing_keys = indexed.existing_keys,
                                      !.newly_added_records_count = 0,
                                      !.next = 1]
    /\ pc' = "indexed"
    /\ UNCHANGED << db_file, scaling_issues, saved_files >>
    /\ UNCHANGED monVars

\* one turn of the loop over the folder: parse the report, extend the
\* database; an exception is printed and the loop goes on
IngestFile ==
    /\ pc = "indexed"
    /\ tables.next <= Len(tables.html_folder)
    /\ LET parsed == ParseHtmlFile(tables.html_folder[tables.next],
                                   tables.existing_keys)
       IN /\ db_data' = db_data \o parsed.records
          /\ tables' = [tables EXCEPT
                           !.existing_keys = parsed.existing_keys,
                           !.newly_added_records_count = @ + Len(parsed.records),
                           !.next = @ + 1]
    /\ UNCHANGED << db_file, scaling_issues, pc, saved_files >>
    /\ UNCHANGED monVars

\* "SAVE UPDATED DB"; the script ends and may be run again on the folder
IngestSave ==
    /\ pc = "indexed"
    /\ tables.next > Len(tables.html_folder)
    /\ db_file' = JsonFile(TRUE, TRUE, db_data)
    /\ saved_files' = Append(saved_files, db_data)
    /\ pc' = IF Len(saved_files) + 1 < MaxRuns THEN "start" ELSE "done"
    /\ db_data' = << >>
    /\ UNCHANGED << scaling_issues, tables >>
    /\ UNCHANGED monVars

IngestNext ==
    \/ IngestLoad
    \/ IngestFile
    \/ IngestSave

SpecIngest == IngestInit /\ [][IngestNext]_vars

\* ------------------------------------------------------ ingestion: claims
\* the composite key of a record of the database
C24_Key(record) ==
    << record.Afore, record.Siefore, record.Concept,
       record.PeriodYear, record.PeriodMonth >>

\* how many records of the list have the key
C24_Count(recs, key) ==
    Cardinality({ i \in DOMAIN recs : C24_Key(recs[i]) = key })

C24_Saving == pc = "indexed" /\ pc' \in { "start", "done" }

\* C24: a run of the ingestion does not raise the number of records of a
\* key the database already has, adds a key that the input holds several
\* times only once, and a second run over the same folder adds no record.
C24_Deduplicates ==
    [][ C24_Saving =>
          /\ \A i \in DOMAIN db_file'.recs :
                LET key == C24_Key(db_file'.recs[i])
                    before == C24_Count(LoadDatabase(db_file), key)
                IN C24_Count(db_file'.recs, key) <= IF before > 0 THEN before ELSE 1
          /\ Len(saved_files) >= 1 =>
                /\ db_file'.recs = db_file.recs
                /\ tables.newly_added_records_count = 0 ]_vars

\* the second run has saved: the database held June 2025 of sb1, the report
\* held it twice more and July 2025 once, and only July was added
C24_Witness ==
    /\ Len(saved_files) = 2
    /\ Len(tables.html_folder) = 1
    /\ Len(tables.html_folder[1].cells) = 2
    /\ \E i, j \in DOMAIN tables.html_folder[1].cells :
          /\ i # j
          /\ NormalizePeriod(tables.html_folder[1].cells[i].period) = << "2025", "07" >>
          /\ NormalizePeriod(tables.html_folder[1].cells[j].period) = << "2025", "06" >>
          /\ tables.html_folder[1].cells[j].val_str # Null
    /\ Len(saved_files[1]) = 2
    /\ saved_files[1][1] = DbRecord("XXI", "sb1", TotalAssets, 7, "2025", "06")
    /\ saved_files[1][2] = DbRecord("XXI", "sb1", TotalAssets, 8, "2025", "07")
    /\ saved_files[2] = saved_files[1]

\* ============================================== resolution of approval units
\* The monitor with the files it reads changing under it: the record store
\* and a unit's new_records.json can be gone when approve_records runs, and
\* the store writes of approve_records are counted per approval id.

\* the record store is moved away or deleted
StoreRemoved ==
    /\ db.exists
    /\ db' = NoFile
    /\ last' = Log("files", 0, "store")
    /\ UNCHANGED << backups, page, state, dirs, nextId, emails, merges, loop >>
    /\ UNCHANGED batchVars

\* new_records.json is deleted from an approval directory
RecordsFileRemoved(approval_id) ==
    /\ dirs[approval_id].exists
    /\ dirs[approval_id].hasFile
    /\ dirs' = [dirs EXCEPT ![approval_id] =
                   [exists |-> TRUE, hasFile |-> FALSE, recs |-> << >>]]
    /\ last' = Log("files", approval_id, "records")
    /\ UNCHANGED << db, backups, page, state, nextId, emails, merges, loop >>
    /\ UNCHANGED batchVars

\* one poll finds the page's periods new; the page then stays as it is
ResolveInit ==
    /\ db \in { NoFile, [exists |-> TRUE, recs |-> << Stored >>] }
    /\ backups = FALSE
    /\ page \in Pages
    /\ state = DefaultState
    /\ dirs = [i \in Ids |-> NoDir]
    /\ nextId = 1
    /\ emails = {}
    /\ last = Log("init", 0, "none")
    /\ merges = [i \in Ids |-> 0]
    /\ loop = NoLoop
    /\ BatchIdle

ResolveNext ==
    \/ RunDailyCheck
    \/ \E id \in Ids : ApproveRecords(id)
    \/ \E id \in Ids : RejectRecords(id)
    \/ StoreRemoved
    \/ \E id \in Ids : RecordsFileRemoved(id)

SpecResolve == ResolveInit /\ [][ResolveNext]_vars


\* the approval id names a directory holding new_records.json, and the
\* record store exists
Approvable(approval_id) ==
    /\ dirs[approval_id].exists
    /\ dirs[approval_id].hasFile
    /\ db.exists

\* C25: approve_records aborts without making any changes when the approval
\* directory, new_records.json in it, or the record store file is absent:
\* the store, the backups, the state file and the approval directories are
\* left as they were and nothing is merged.
C25_ApproveAborts ==
    [][\A id \in Ids :
         (ApproveRecords(id) /\ ~Approvable(id))
           => /\ UNCHANGED << db, backups, state, dirs >>
              /\ last'.out \in { "notfound", "nofile", "nodb" }]_vars

\* approve_records has just run on a pending unit whose records file is in
\* place while the record store is gone
C25_Witness ==
    /\ last.op = "approve"
    /\ last.out = "nodb"
    /\ ~db.exists
    /\ \E id \in Ids : PendingUnit(id)


\* C26: approval directories and pending entries correspond one to one: an
\* approval directory holding new_records.json has an entry with status
\* pending, and an entry with status pending has its directory and records
\* file (a failed notification leaves no such directory, a resolved unit
\* has none).
C26_OneToOne ==
    \A id \in Ids :
        (dirs[id].exists /\ dirs[id].hasFile) <=> StatusOf(state, id) = "pending"


\* C27: for every approval id, over any sequence of approve_records and
\* reject_records invocations, also ones that fail part-way, the unit's
\* records are appended to the record store at most once, and never after
\* the unit has been rejected: an invocation that writes the store for an
\* id is the first one to do so, and the id is not rejected.
C27_AppendedOnce ==
    [][\A id \in Ids :
         merges'[id] > merges[id]
           => /\ merges[id] = 0
              /\ StatusOf(state, id) # "rejected"]_vars


\* C29: after every check_for_updates that obtains a hash, the stored
\* period_hash is the hash of the stored known_periods: hash and period set
\* describe the same observation of the summary page, whatever the two
\* fetches of the check return.
C29_HashOfKnownPeriods ==
    [][(last'.op = "poll" /\ last'.hash # NoHash)
         => state'.period_hash = Md5(SortedSeq(state'.known_periods))]_vars


\* the last invocation was a poll that detected a new period and whose
\* backup, pipeline or notification failed
FailedRun ==
    /\ last.op = "poll"
    /\ last.out \in { "nobackup", "pipefail", "mailfail" }

\* the step is a poll in which both fetches of the page succeed
PollReadsPage ==
    /\ last'.op = "poll"
    /\ last'.periods = page
    /\ last'.hash = Md5(SortedSeq(page))

\* C30: a new reporting period is not lost by a failed run: when a poll
\* detected a new period and its backup, pipeline or notification failed,
\* the next poll over the unchanged summary page detects the period again
\* (it does not end with "no new periods" or "hash changed but nothing
\* new"), so that a pending approval unit can be created.
C30_DetectedAgain ==
    [][(FailedRun /\ PollReadsPage)
         => last'.out \notin { "nochange", "nonew" }]_vars


\* ====================================================== continuous monitoring
\* main() without a command flag: one ConsarMonitor, whose self.state is
\* loaded once by __init__, runs run_daily_check again and again, while
\* --approve and --reject are run as separate processes in between.

\* ConsarMonitor() of the continuous mode: load_monitor_state
LoopStart ==
    /\ ~loop.running
    /\ loop' = [running |-> TRUE, state |-> state]
    /\ last' = Log("start", 0, "none")
    /\ UNCHANGED << db, backups, page, state, dirs, nextId, emails, merges >>
    /\ UNCHANGED batchVars

\* what a run_daily_check of the continuous process logs
LoopLog(out, id, periods, hash, backup, failAt, steps, processed) ==
    [PollLog(out, id, periods, hash, backup, failAt, steps, processed)
     EXCEPT !.op = "loop"]

\* run_daily_check of the continuous process: it works on the self.state it
\* holds, and every save_monitor_state writes that object over the state file
LoopRunDailyCheck ==
    \E expired \in BOOLEAN, fetch1 \in BOOLEAN, fetch2 \in BOOLEAN :
      LET current_periods == GetLatestPeriods(fetch1)
          current_hash == GetPeriodHash(fetch2)
          chk == CheckForUpdates(loop.state, current_periods, current_hash)
          saved == IF chk.saved THEN chk.state ELSE state
          kept == CleanupOldBackups(expired)
      IN
      /\ loop.running
      /\ page' = page
      /\ db' = db
      /\ UNCHANGED merges
      /\ UNCHANGED batchVars
      /\ IF chk.updates = {}
         THEN /\ backups' = kept
              /\ state' = saved
              /\ loop' = [loop EXCEPT !.state = chk.state]
              /\ last' = IF current_hash = NoHash
                         THEN LoopLog("nohash", 0, current_periods, NoHash, FALSE, 0, 0,
                                      NoFile)
                         ELSE LoopLog(IF loop.state.period_hash = current_hash
                                      THEN "nochange" ELSE "nonew",
                                      0, current_periods, current_hash, FALSE, 0, 0, NoFile)
              /\ UNCHANGED << dirs, nextId, emails >>
         ELSE \E copyOk \in BOOLEAN :
           LET backup_path == CreateDatabaseBackup(copyOk)
           IN IF ~backup_path
              THEN /\ backups' = kept
                   /\ state' = saved
                   /\ loop' = [loop EXCEPT !.state = chk.state]
                   /\ last' = LoopLog("nobackup", 0, current_periods, current_hash,
                                      FALSE, 0, 0, NoFile)
                   /\ UNCHANGED << dirs, nextId, emails >>
              ELSE \E failAt \in 0..NSteps :
                LET run_dir == RunProcessingPipeline(failAt)
                IN /\ backups' = TRUE
                   /\ IF ~run_dir.ok
                      THEN /\ state' = saved
                           /\ loop' = [loop EXCEPT !.state = chk.state]
                           /\ last' = LoopLog("pipefail", 0, current_periods,
                                              current_hash, TRUE, failAt, run_dir.steps, NoFile)
                           /\ UNCHANGED << dirs, nextId, emails >>
                      ELSE \E output \in Outputs :
                        LET new_records == ExtractNewRecords(db.recs, output)
                        IN IF new_records = << >>
                              THEN /\ state' = saved
                                   /\ loop' = [loop EXCEPT !.state = chk.state]
                                   /\ last' = LoopLog("norecords", 0, current_periods,
                                                current_hash, TRUE, failAt, run_dir.steps, output)
                                   /\ UNCHANGED << dirs, nextId, emails >>
                              ELSE \E configured \in BOOLEAN, smtpOk \in BOOLEAN :
                                LET mail == SendApprovalEmail(chk.state, new_records,
                                                              nextId, configured, smtpOk)
                                IN /\ configured => nextId \in Ids
                                   /\ ~configured => smtpOk
                                   /\ state' = IF mail.saved THEN mail.state ELSE saved
                                   /\ loop' = [loop EXCEPT !.state = mail.state]
                                   /\ dirs' = mail.dirs
                                   /\ nextId' = IF configured THEN nextId + 1 ELSE nextId
                                   /\ emails' = IF mail.sent THEN emails \cup { nextId }
                                                ELSE emails
                                   /\ last' = LoopLog(IF mail.sent THEN "sent"
                                                      ELSE IF configured THEN "mailfail"
                                                      ELSE "nomailcfg",
                                                IF configured THEN nextId ELSE 0,
                                                current_periods, current_hash, TRUE,
                                                failAt, run_dir.steps, output)

LoopNext ==
    \/ PageUpdate
    \/ LoopStart
    \/ LoopRunDailyCheck
    \/ \E id \in Ids : ApproveRecords(id)
    \/ \E id \in Ids : RejectRecords(id)

SpecLoop == Init /\ [][LoopNext]_vars

\* C28: the state written by the continuous process never discards a
\* resolution written by another process: a save_monitor_state of the loop
\* does not turn a stored status of approved or rejected back to pending
\* and does not lose an entry of pending_approvals.
C28_KeepsResolutions ==
    [][last'.op = "loop"
         => \A id \in Ids :
              /\ StatusOf(state, id) \in { "approved", "rejected" }
                   => StatusOf(state', id) = StatusOf(state, id)
              /\ StatusOf(state, id) # "none" => StatusOf(state', id) # "none"]_vars

====
